---- MODULE Spec2Model ----
(***************************************************************************)
(* A model of plumber_core's MDL decoder (plumber_core/src/model/mdl.rs).  *)
(*                                                                         *)
(* The decoder is a set of pure read operations over one immutable byte    *)
(* buffer.  Each part is modelled by operators translated from the Rust    *)
(* code, and by a specification whose Init draws the inputs (the content   *)
(* of the buffer the operation looks at) and whose actions apply the       *)
(* operations:                                                             *)
(*    SpecSig       Mdl::check_signature                                   *)
(*    SpecOffsets   the accessors that resolve relative offsets            *)
(*    SpecSections  AnimationDescRef: section resolution and data()        *)
(*    SpecFrames    the per-frame bitflag decoder and the legacy decoder   *)
(*                                                                         *)
(* Conventions                                                             *)
(*  - i32 fields keep their width: MinI32..MaxI32, and every sum or        *)
(*    product is formed only where it cannot leave that range.             *)
(*  - a usize produced by `(a as isize + b as isize) as usize` is carried  *)
(*    as the signed sum; a negative sum stands for the wrapped value       *)
(*    2^64 - |sum|, which lies beyond every buffer.                        *)
(*  - a panic is a result of its own, [kind |-> "Panic"].                  *)
(***************************************************************************)
EXTENDS Integers, Sequences, FiniteSets, TLC

VARIABLES
    bytes,        \* Mdl.bytes, the buffer check_signature looks at
    sigResult,    \* the value check_signature returned, or NotCalled
    bufLen,       \* self.bytes.len() of the buffer the views borrow
    text,         \* what the buffer holds where names are read
    view,         \* the record view an accessor is called on
    resolved,     \* the accessor called and the value it returned
    descs,        \* the AnimationDesc records of the animation descriptors
    buffer,       \* the bytes of the buffer the animation decoding reads
    boneTable,    \* the bone table (self.bones)
    overflowChecks, \* whether the build checks integer overflow (debug) or wraps
    results,      \* per descriptor, what data() returned, or NotCalled
    iter,         \* the section iterator of the first descriptor
    sectionRef,   \* the AnimationSectionRef a decoder is called on
    decoded,      \* what AnimationSectionRef::data returned, or NotCalled
    call,         \* the pure function called and its arguments
    returned      \* the value that call returned, or NotCalled

sigVars == <<bytes, sigResult>>
offVars == <<bufLen, text, view, resolved>>
animVars ==
    <<descs, buffer, boneTable, overflowChecks, results, iter, sectionRef, decoded>>
auxVars == <<call, returned>>
vars == <<sigVars, offVars, animVars, auxVars>>

NotCalled == [kind |-> "NotCalled"]

\* Option: None and Some(v)
None == [some |-> FALSE]
Some(v) == [some |-> TRUE, v |-> v]

\* `let x = e; F(x)`
Bind(e, F(_)) == F(e)

\* `let x = r?; F(x)`: an error or a panic in r is the outcome, otherwise
\* the computation goes on with r
Then(r, F(_)) == IF r.kind # "Ok" THEN r ELSE F(r)

Ok(v) == [kind |-> "Ok", value |-> v]
Corrupted(e) == [kind |-> "Corrupted", error |-> e]
InvalidSignature(s) == [kind |-> "InvalidSignature", signature |-> s]
Unsupported(f) == [kind |-> "Unsupported", feature |-> f]
Panic(m) == [kind |-> "Panic", message |-> m]

Min(a, b) == IF a < b THEN a ELSE b
Max(a, b) == IF a > b THEN a ELSE b

(***************************************************************************)
(* Mdl::check_signature                                                    *)
(***************************************************************************)

\* b"IDST"
MAGIC == <<73, 68, 83, 84>>

\* U+FFFD REPLACEMENT CHARACTER as UTF-8, what from_utf8_lossy writes for
\* every maximal invalid sequence
REPLACEMENT == <<239, 191, 189>>

\* the byte at index i (1-based) of s, 0 past the end (safe_get)
ByteAt(s, i) == IF i <= Len(s) THEN s[i] ELSE 0

IsCont(b) == b >= 128 /\ b <= 191

\* core::str::utf8_char_width
Utf8Width(b) ==
    IF b < 128 THEN 1
    ELSE IF b >= 194 /\ b <= 223 THEN 2
    ELSE IF b >= 224 /\ b <= 239 THEN 3
    ELSE IF b >= 240 /\ b <= 244 THEN 4
    ELSE 0

\* the second byte a 3- or 4-byte lead admits
SecondOk(first, second) ==
    \/ first = 224 /\ second >= 160 /\ second <= 191
    \/ first >= 225 /\ first <= 236 /\ IsCont(second)
    \/ first = 237 /\ second >= 128 /\ second <= 159
    \/ first >= 238 /\ first <= 239 /\ IsCont(second)
    \/ first = 240 /\ second >= 144 /\ second <= 191
    \/ first >= 241 /\ first <= 243 /\ IsCont(second)
    \/ first = 244 /\ second >= 128 /\ second <= 143

\* The chunk starting at index i: <<valid, length>>, the length of the valid
\* character or of the maximal invalid sequence (Utf8Chunks::next).
Utf8Chunk(s, i) ==
    LET first == s[i]
        w == Utf8Width(first)
    IN  IF w = 1 THEN <<TRUE, 1>>
        ELSE IF w = 2 THEN
            IF IsCont(ByteAt(s, i + 1)) THEN <<TRUE, 2>> ELSE <<FALSE, 1>>
        ELSE IF w = 3 THEN
            IF ~SecondOk(first, ByteAt(s, i + 1)) THEN <<FALSE, 1>>
            ELSE IF ~IsCont(ByteAt(s, i + 2)) THEN <<FALSE, 2>>
            ELSE <<TRUE, 3>>
        ELSE IF w = 4 THEN
            IF ~SecondOk(first, ByteAt(s, i + 1)) THEN <<FALSE, 1>>
            ELSE IF ~IsCont(ByteAt(s, i + 2)) THEN <<FALSE, 2>>
            ELSE IF ~IsCont(ByteAt(s, i + 3)) THEN <<FALSE, 3>>
            ELSE <<TRUE, 4>>
        ELSE <<FALSE, 1>>

RECURSIVE Utf8LossyFrom(_, _)
Utf8LossyFrom(s, i) ==
    IF i > Len(s) THEN <<>>
    ELSE LET c == Utf8Chunk(s, i)
         IN  (IF c[1] THEN SubSeq(s, i, i + c[2] - 1) ELSE REPLACEMENT)
                 \o Utf8LossyFrom(s, i + c[2])

\* String::from_utf8_lossy(s).into_owned(), as the bytes of the String
from_utf8_lossy(s) == Utf8LossyFrom(s, 1)

\* self.bytes.get(0..4)
SignatureBytes(b) == IF Len(b) >= 4 THEN SubSeq(b, 1, 4) ELSE <<>>

check_signature(b) ==
    IF Len(b) < 4 THEN Corrupted("eof reading signature")
    ELSE IF SignatureBytes(b) = MAGIC THEN Ok(<<>>)
    ELSE InvalidSignature(from_utf8_lossy(SignatureBytes(b)))

(***************************************************************************)
(* binary_utils: the bounded view layer.  Its source is not part of the    *)
(* files at hand; it is modelled from its contract: a view is returned     *)
(* only if the whole byte range lies within the buffer and the offset      *)
(* satisfies the alignment of the shape.                                   *)
(***************************************************************************)

\* parse::<T>(bytes, offset) is Some
parse(len, offset, size, align) ==
    /\ offset >= 0
    /\ offset % align = 0
    /\ offset <= len
    /\ size <= len - offset

\* parse_slice::<T>(bytes, offset, count) is Some
parse_slice(len, offset, size, align, count) ==
    /\ offset >= 0
    /\ offset % align = 0
    /\ offset <= len
    /\ count <= (len - offset) \div size

\* null_terminated_prefix(rest) is Some, for the rest of the buffer from
\* `offset`: a NUL byte lies at or after offset
null_terminated_prefix(txt, offset) == offset <= txt.lastNul

(***************************************************************************)
(* Record sizes (size_of::<T>() of the #[repr(C)] structs)                 *)
(***************************************************************************)
SizeOfHeader1 == 400
SizeOfHeader2 == 32
SizeOfModel == 148
SizeOfMesh == 116
SizeOfMovement == 44
SizeOfAnimationSection == 8
SizeOfFrameAnimation == 24
SizeOfAnimation == 4

(***************************************************************************)
(* Names: str::from_utf8(null_terminated_prefix(bytes.get(offset..)))      *)
(***************************************************************************)

\* A name read at the usize `offset`; the Ok value is the position the
\* returned &str starts at.
NameAt(len, txt, offset, oob, eof, utf8) ==
    IF ~(offset >= 0 /\ offset <= len) THEN Corrupted(oob)
    ELSE IF ~null_terminated_prefix(txt, offset) THEN Corrupted(eof)
    ELSE IF ~txt.valid THEN Corrupted(utf8)
    ELSE Ok([at |-> offset])

(***************************************************************************)
(* Mdl::header and HeaderRef::name                                         *)
(***************************************************************************)

\* Mdl::header: the Ok value tells whether header_2 is Some and where.
header(len, header_2_offset) ==
    IF ~parse(len, 0, SizeOfHeader1, 4) THEN Corrupted("eof reading header")
    ELSE IF header_2_offset > 0 THEN
        IF parse(len, header_2_offset, SizeOfHeader2, 4)
        THEN Ok([header_2 |-> "Some", at |-> header_2_offset])
        ELSE Corrupted("header 2 out of bounds or misaligned")
    ELSE Ok([header_2 |-> "None", at |-> 0])

\* HeaderRef::name with header_2 = Some: the position the name is read at
Header2NameOffset(header_2_offset, name_offset) ==
    header_2_offset + SizeOfHeader2 + name_offset

\* HeaderRef::name. hdr is the Ok value of header(); the Ok value says which
\* header's name was returned and where it starts.
HeaderRef_name(len, txt, hdr, header_2_offset, name_offset) ==
    IF hdr.header_2 = "Some" /\ name_offset > 0 THEN
        LET r == NameAt(len, txt, Header2NameOffset(header_2_offset, name_offset),
                        "header 2 name offset out of bounds",
                        "eof reading header 2 name",
                        "header 2 name is not valid utf8")
        IN  IF r.kind = "Ok" THEN Ok([from |-> "header_2", at |-> r.value.at]) ELSE r
    ELSE IF ~txt.valid THEN Corrupted("header name is not valid utf8")
    ELSE Ok([from |-> "header_1", at |-> 12])

(***************************************************************************)
(* Entity views: names and child tables, relative to the view's position   *)
(***************************************************************************)

\* (self.offset as isize + field as isize) as usize
RelativeOffset(offset, field) == offset + field

BoneRef_name(len, txt, v) ==
    NameAt(len, txt, RelativeOffset(v.offset, v.field),
           "bone name out of bounds", "eof reading bone name",
           "bone name is not valid utf8")

\* BoneRef::surface_prop; Ok(None) when the offset field is 0
BoneRef_surface_prop(len, txt, v) ==
    IF v.field = 0 THEN Ok(None)
    ELSE NameAt(len, txt, RelativeOffset(v.offset, v.field),
                "bone surface prop out of bounds", "eof reading bone surface prop",
                "bone surface prop is not valid utf8")

TextureRef_name(len, txt, v) ==
    NameAt(len, txt, RelativeOffset(v.offset, v.field),
           "texture name out of bounds", "eof reading texture name",
           "texture name is not valid utf8")

BodyPartRef_name(len, txt, v) ==
    NameAt(len, txt, RelativeOffset(v.offset, v.field),
           "body part name offset out of bounds", "eof reading body part name",
           "body part name is not valid utf8")

AnimationDescRef_name(len, txt, v) ==
    NameAt(len, txt, RelativeOffset(v.offset, v.field),
           "animation name out of bounds", "eof reading animation name",
           "animation name is not valid utf8")

\* A child table of v.count records found at v.offset + v.field
ChildTable(len, v, size, negative, oob) ==
    LET offset == RelativeOffset(v.offset, v.field)
    IN  IF v.count < 0 THEN Corrupted(negative)
        ELSE IF ~parse_slice(len, offset, size, 4, v.count) THEN Corrupted(oob)
        ELSE Ok([at |-> offset, count |-> v.count])

BodyPartRef_models(len, v) ==
    ChildTable(len, v, SizeOfModel, "body part models count is negative",
               "body part models out of bounds or misaligned")

ModelRef_meshes(len, v) ==
    ChildTable(len, v, SizeOfMesh, "model meshes count is negative",
               "model meshes out of bounds or misaligned")

AnimationDescRef_movements(len, v) ==
    ChildTable(len, v, SizeOfMovement, "animation movements count is negative",
               "animation movements out of bounds or misaligned")

(***************************************************************************)
(* i32 arithmetic                                                          *)
(***************************************************************************)
MaxI32 == 2147483647
MinI32 == 0 - 2147483647 - 1

\* a / b of two i32 with b > 0: the quotient truncated toward zero
TruncDiv(a, b) ==
    IF a >= 0 \/ a % b = 0 THEN a \div b ELSE (a \div b) + 1

(***************************************************************************)
(* The animation bytes: mem.anim holds the bytes of the buffer from        *)
(* position mem.animAt to its end.  The records before that position       *)
(* (headers, descriptors, bones) are carried as values; where a decoder    *)
(* reads there it finds 0.  Multi-byte integers are little-endian          *)
(* (from_ne_bytes on the usual targets).                                   *)
(***************************************************************************)

\* bytes[p], for 0 <= p < len
U8At(mem, p) == IF p < mem.animAt THEN 0 ELSE mem.anim[p - mem.animAt + 1]

\* i16::from_ne_bytes of the two bytes at p
I16At(mem, p) ==
    LET u == U8At(mem, p) + 256 * U8At(mem, p + 1)
    IN  IF u >= 32768 THEN u - 65536 ELSE u

\* i32::from_ne_bytes of the four bytes at p
I32At(mem, p) ==
    LET high == U8At(mem, p + 3)
    IN  U8At(mem, p) + 256 * U8At(mem, p + 1) + 65536 * U8At(mem, p + 2)
        + 16777216 * (IF high >= 128 THEN high - 256 ELSE high)

(***************************************************************************)
(* AnimationDescRef: the section resolver                                  *)
(*                                                                         *)
(* d is the AnimationDesc record with the position it was resolved at      *)
(* (d.offset) and d.frame_animation, the FRAMEANIM bit of its flags.       *)
(* checks tells whether the build has overflow checks (a debug build       *)
(* panics where a release build wraps).                                    *)
(***************************************************************************)

\* frame_count / section_frame_count + 2 as the code computes it in i32:
\* the Ok value is the i32 count
SectionCountI32(d, checks) ==
    IF d.section_frame_count = 0 THEN Panic("attempt to divide by zero")
    ELSE LET q == TruncDiv(d.frame_count, d.section_frame_count)
         IN  IF q <= MaxI32 - 2 THEN Ok(q + 2)
             ELSE IF checks THEN Panic("attempt to add with overflow")
             ELSE Ok(MinI32 + (q - (MaxI32 - 2)) - 1)

\* the records parse_slice returned: count records from position offset
SectionRecords(mem, offset, count) ==
    [i \in 1..count |->
        [anim_block |-> I32At(mem, offset + SizeOfAnimationSection * (i - 1)),
         anim_offset |-> I32At(mem, offset + SizeOfAnimationSection * (i - 1) + 4)]]

\* the AnimationSectionsRef built from the records parse_slice returned
AnimationSectionsRef(d, offset, records) ==
    [animation_sections |-> records,
     offset |-> offset,
     anim_offset |->
        d.offset + d.anim_offset
            - (IF records = <<>> THEN 0 ELSE records[1].anim_offset)]

\* AnimationDescRef::animation_sections: Ok(None), or Ok of the
\* AnimationSectionsRef [animation_sections, offset, anim_offset]
animation_sections(d, len, mem, checks) ==
    IF d.section_offset = 0 \/ d.section_frame_count < 0 THEN Ok(None)
    ELSE Then(SectionCountI32(d, checks), LAMBDA count :
            IF count.value < 0 THEN
                Corrupted("calculated animation section count is negative")
            ELSE IF ~parse_slice(len, RelativeOffset(d.offset, d.section_offset),
                                 SizeOfAnimationSection, 4, count.value)
            THEN Corrupted("animation sections out of bounds or misaligned")
            ELSE Ok(Some(AnimationSectionsRef(
                    d, RelativeOffset(d.offset, d.section_offset),
                    SectionRecords(mem, RelativeOffset(d.offset, d.section_offset),
                                   count.value)))))

\* AnimationDescRef::iter_animation_sections: Ok(None), or Ok of the lazy
\* iterator, which holds the table and the two converted counts
iter_animation_sections(d, len, mem, checks) ==
    Then(animation_sections(d, len, mem, checks), LAMBDA sections :
        IF ~sections.value.some THEN sections
        ELSE IF d.section_frame_count < 0 THEN
            Corrupted("animation section frame count is negative")
        ELSE IF d.frame_count < 0 THEN
            Corrupted("animation frame count is negative")
        ELSE Ok(Some([sections |-> sections.value.v,
                      sections_len |-> Len(sections.value.v.animation_sections),
                      section_frame_count |-> d.section_frame_count,
                      frame_count |-> d.frame_count])))

\* a < b of two usize values (a negative number stands for a wrapped one)
UsizeLt(a, b) == IF (a < 0) = (b < 0) THEN a < b ELSE b < 0

\* a - b of two usize values: a panic where the build checks overflow and the
\* difference is below 0, the wrapped difference where it does not
UsizeSub(a, b, checks) ==
    IF UsizeLt(a, b) /\ checks THEN Panic("attempt to subtract with overflow")
    ELSE Ok(a - b)

\* A closure that takes only the last section for the tail
SectionFrameCountOneTail(it, i, checks) ==
    Then(UsizeSub(it.sections_len, 1, checks), LAMBDA tail :
        IF UsizeLt(i, tail.value) THEN Ok(it.section_frame_count)
        ELSE UsizeSub(it.frame_count, tail.value * it.section_frame_count, checks))

\* The frame count the iterator's closure gives the section at index i
\* (0-based, counted before the filter)
SectionFrameCount(it, i, checks) ==
    Then(UsizeSub(it.sections_len, 2, checks), LAMBDA tail :
        IF UsizeLt(i, tail.value) THEN Ok(it.section_frame_count)
        ELSE UsizeSub(it.frame_count, tail.value * it.section_frame_count, checks))

\* The AnimationSectionRef the closure builds for index i (0-based); a
\* panic in the frame count leaves no section
MapSection(it, i, checks) ==
    Then(SectionFrameCount(it, i, checks), LAMBDA frame_count :
        Ok([anim_offset |->
                it.sections.anim_offset + it.sections.animation_sections[i + 1].anim_offset,
            anim_block |-> it.sections.animation_sections[i + 1].anim_block,
            frame_count |-> frame_count.value,
            last_section |->
                \/ ~UsizeLt(i, it.sections_len - 2)
                \/ it.frame_count = (i + 1) * it.section_frame_count]))

\* .filter(|section| section.anim_block == 0)
InFile(section) == section.anim_block = 0

\* One call of next() on the filtered iterator standing before index i: the
\* index at which it stops, which is the index of the section it yields, of
\* the section whose closure panicked, or sections_len when it is exhausted
RECURSIVE NextInFile(_, _, _)
NextInFile(it, i, checks) ==
    IF i >= it.sections_len THEN it.sections_len
    ELSE Bind(MapSection(it, i, checks), LAMBDA m :
            IF m.kind = "Panic" \/ InFile(m.value) THEN i
            ELSE NextInFile(it, i + 1, checks))

\* An animation_section whose section is not flagged final
animation_section_not_last(d) ==
    IF d.anim_block # 0 THEN Ok(None)
    ELSE IF d.frame_count < 0 THEN Corrupted("animation frame count is negative")
    ELSE Ok(Some([anim_offset |-> RelativeOffset(d.offset, d.anim_offset),
                  anim_block |-> 0,
                  frame_count |-> d.frame_count,
                  last_section |-> FALSE]))

\* AnimationDescRef::animation_section: Ok(None) or Ok(AnimationSectionRef)
animation_section(d) ==
    IF d.anim_block # 0 THEN Ok(None)
    ELSE IF d.frame_count < 0 THEN Corrupted("animation frame count is negative")
    ELSE Ok(Some([anim_offset |-> RelativeOffset(d.offset, d.anim_offset),
                  anim_block |-> 0,
                  frame_count |-> d.frame_count,
                  last_section |-> TRUE]))

(***************************************************************************)
(* Decoded output                                                          *)
(*                                                                         *)
(* A packed value read from the buffer is carried as the codec that        *)
(* decodes it and the absolute position it was read at; `turns` counts     *)
(* the root rotation corrections applied to a rotation sample.  A          *)
(* vector's components are signed terms [of, neg]: `of` is a number        *)
(* (legacy decoder) or names the stored value, `neg` tells it is negated.  *)
(***************************************************************************)
NoneData == [tag |-> "None"]
Constant(v) == [tag |-> "Constant", value |-> v]
Animated(frames) == [tag |-> "Animated", frames |-> frames]
AnimatedEuler(frames) == [tag |-> "AnimatedEuler", frames |-> frames]

\* BoneAnimationData::default()
DefaultBoneAnimationData == [rotation |-> NoneData, position |-> NoneData]

\* Quaternion::from_bytes_48 / from_bytes_64 / from_u16s of the bytes at `at`
QuaternionAt(codec, at) == [codec |-> codec, at |-> at, turns |-> 0]

\* Vector { x, y, z }; `quarter` counts the times FRAC_PI_2 was subtracted
\* from z, so no irrational number is ever computed
Vector(x, y, z) == [x |-> x, y |-> y, z |-> z, quarter |-> 0]

\* one component of a stored position: the value decoded from the word at `at`
Term(codec, at) == [of |-> <<codec, at>>, neg |-> FALSE]

\* a component that is the number n
Num(n) == [of |-> n, neg |-> FALSE]

\* -c of a component
Neg(c) == [c EXCEPT !.neg = ~@]

\* Vector::from_u16s of the three u16 at `at`
VectorFromU16s(at) ==
    Vector(Term("f16_to_f64", at), Term("f16_to_f64", at + 2), Term("f16_to_f64", at + 4))

\* Vector { x: f64::from(f32s[0]), .. } of the three f32 at `at`
VectorFromF32s(at) ==
    Vector(Term("f32", at), Term("f32", at + 4), Term("f32", at + 8))

\* Quaternion::apply_root_rotation_correction
Quaternion_apply_root_rotation_correction(q) == [q EXCEPT !.turns = @ + 1]

\* A correction that swaps x and y and negates neither
Vector_swap_x_y(v) == [v EXCEPT !.x = v.y, !.y = v.x]

\* Vector::apply_root_position_correction
Vector_apply_root_position_correction(v) == [v EXCEPT !.x = v.y, !.y = Neg(v.x)]

\* Vector::apply_root_rotation_correction
Vector_apply_root_rotation_correction(v) == [v EXCEPT !.quarter = @ + 1]

MapSeq(Op(_), s) == [i \in DOMAIN s |-> Op(s[i])]

\* BoneAnimationData::apply_root_correction
apply_root_correction(data) ==
    [rotation |->
        CASE data.rotation.tag = "Constant" ->
                Constant(Quaternion_apply_root_rotation_correction(data.rotation.value))
          [] data.rotation.tag = "Animated" ->
                Animated(MapSeq(Quaternion_apply_root_rotation_correction,
                                data.rotation.frames))
          [] data.rotation.tag = "AnimatedEuler" ->
                AnimatedEuler(MapSeq(Vector_apply_root_rotation_correction,
                                     data.rotation.frames))
          [] OTHER -> data.rotation,
     position |->
        CASE data.position.tag = "Constant" ->
                Constant(Vector_apply_root_position_correction(data.position.value))
          [] data.position.tag = "Animated" ->
                Animated(MapSeq(Vector_apply_root_position_correction,
                                data.position.frames))
          [] OTHER -> data.position]

(***************************************************************************)
(* The per-frame bitflag decoder (FrameAnimationRef)                       *)
(*                                                                         *)
(* fa is the FrameAnimationRef: [offset, bone_count, frame_count,          *)
(* last_section, constants_offset, frame_offset]; the last two are the     *)
(* fields of the FrameAnimation record parsed at fa.offset.                *)
(***************************************************************************)
BoneFlags_RAWPOS == 1
BoneFlags_RAWROT == 2
BoneFlags_ANIMPOS == 4
BoneFlags_ANIMROT == 8
BoneFlags_FULLANIMPOS == 16
BoneFlags_CONST_ROT2 == 64
BoneFlags_ANIM_ROT2 == 128

\* flags.contains(bit), for a flag of one bit
Contains(flags, bit) == (flags \div bit) % 2 = 1

\* bytes.get(..n) is Some for the rest of the buffer from pos
Take(len, pos, n) == pos >= 0 /\ pos <= len /\ n <= len - pos

\* parse_slice_mut::<T>(&mut bytes, count) is Some for the rest of the buffer
\* from pos (binary_utils, modelled from its contract); it then advances the
\* slice by count * size bytes
parse_slice_mut(len, pos, size, align, count) ==
    /\ pos % align = 0
    /\ Take(len, pos, count * size)

\* the cursor of a read loop and the data read so far
Cursor(pos, data) == [kind |-> "Ok", pos |-> pos, data |-> data]

\* FrameAnimationRef::bone_flags is Some
bone_flags(fa, len) == Take(len, fa.offset + SizeOfFrameAnimation, fa.bone_count)

\* the bytes FrameAnimationRef::bone_flags returns when it is Some
BoneFlagBytes(fa, mem) ==
    [b \in 1..fa.bone_count |-> U8At(mem, fa.offset + SizeOfFrameAnimation + b - 1)]

\* data.rotation = v / data.position = v, and the cursor moved on by n bytes
SetRotation(c, v, n) == Cursor(c.pos + n, [c.data EXCEPT !.rotation = v])
SetPosition(c, v, n) == Cursor(c.pos + n, [c.data EXCEPT !.position = v])

\* read_bone_constants, `if flags.contains(BoneFlags::CONST_ROT2)`
ConstRot2(flags, c, len) ==
    IF ~Contains(flags, BoneFlags_CONST_ROT2) THEN c
    ELSE IF ~Take(len, c.pos, 6)
    THEN Corrupted("frame animation bone constants out of bounds")
    ELSE SetRotation(c, Constant(QuaternionAt("from_bytes_48", c.pos)), 6)

\* read_bone_constants, `if flags.contains(BoneFlags::RAWROT)`
RawRot(flags, c, len) ==
    IF ~Contains(flags, BoneFlags_RAWROT) THEN c
    ELSE IF ~parse_slice_mut(len, c.pos, 2, 2, 3)
    THEN Corrupted("frame animation bone constants out of bounds or misaligned")
    ELSE SetRotation(c, Constant(QuaternionAt("from_u16s", c.pos)), 6)

\* read_bone_constants, `if flags.contains(BoneFlags::RAWPOS)`
RawPos(flags, c, len) ==
    IF ~Contains(flags, BoneFlags_RAWPOS) THEN c
    ELSE IF ~parse_slice_mut(len, c.pos, 2, 2, 3)
    THEN Corrupted("frame animation bone constants out of bounds or misaligned")
    ELSE SetPosition(c, Constant(VectorFromU16s(c.pos)), 6)

\* read_bone_constants, the body of the loop for one bone: c is the cursor
\* and the bone's data before, the result the cursor and the data after
ReadBoneConstants(flags, c, len) ==
    Then(ConstRot2(flags, c, len), LAMBDA r1 :
    Then(RawRot(flags, r1, len), LAMBDA r2 :
    RawPos(flags, r2, len)))

\* the loop of read_bone_constants from bone b (1-based) on; data is the
\* whole sequence of BoneAnimationData
RECURSIVE ConstantsLoop(_, _, _, _, _)
ConstantsLoop(flagBytes, b, pos, data, len) ==
    IF b > Len(flagBytes) THEN Cursor(pos, data)
    ELSE Then(ReadBoneConstants(flagBytes[b], Cursor(pos, data[b]), len), LAMBDA r :
            ConstantsLoop(flagBytes, b + 1, r.pos, [data EXCEPT ![b] = r.data], len))

\* FrameAnimationRef::read_bone_constants: Ok(data) or an error
read_bone_constants(fa, flagBytes, data, len) ==
    IF fa.constants_offset = 0 THEN Ok(data)
    ELSE IF ~Take(len, RelativeOffset(fa.offset, fa.constants_offset), 0)
    THEN Corrupted("frame animation bone constants out of bounds")
    ELSE Then(ConstantsLoop(flagBytes, 1, RelativeOffset(fa.offset, fa.constants_offset),
                            data, len),
              LAMBDA r : Ok(r.data))

\* frames.push(v) on data.rotation and on data.position, and the cursor
\* moved on by n bytes; the slot holds the Animated variant or the code
\* reaches unreachable!()
PushRotation(c, v, n) ==
    IF c.data.rotation.tag # "Animated"
    THEN Panic("internal error: entered unreachable code")
    ELSE SetRotation(c, Animated(Append(c.data.rotation.frames, v)), n)
PushPosition(c, v, n) ==
    IF c.data.position.tag # "Animated"
    THEN Panic("internal error: entered unreachable code")
    ELSE SetPosition(c, Animated(Append(c.data.position.frames, v)), n)

\* read_bone_frames, `if flags.contains(BoneFlags::ANIM_ROT2)`
AnimRot2(flags, c, len) ==
    IF ~Contains(flags, BoneFlags_ANIM_ROT2) THEN c
    ELSE IF ~Take(len, c.pos, 6)
    THEN Corrupted("frame animation bone frames out of bounds")
    ELSE PushRotation(c, QuaternionAt("from_bytes_48", c.pos), 6)

\* read_bone_frames, `if flags.contains(BoneFlags::ANIMROT)`
AnimRot(flags, c, len) ==
    IF ~Contains(flags, BoneFlags_ANIMROT) THEN c
    ELSE IF ~parse_slice_mut(len, c.pos, 2, 2, 3)
    THEN Corrupted("frame animation bone frames out of bounds or misaligned")
    ELSE PushRotation(c, QuaternionAt("from_u16s", c.pos), 6)

\* read_bone_frames, `if flags.contains(BoneFlags::ANIMPOS)`
AnimPos(flags, c, len) ==
    IF ~Contains(flags, BoneFlags_ANIMPOS) THEN c
    ELSE IF ~parse_slice_mut(len, c.pos, 2, 2, 3)
    THEN Corrupted("frame animation bone frames out of bounds or misaligned")
    ELSE PushPosition(c, VectorFromU16s(c.pos), 6)

\* read_bone_frames, `if flags.contains(BoneFlags::FULLANIMPOS)`
FullAnimPos(flags, c, len) ==
    IF ~Contains(flags, BoneFlags_FULLANIMPOS) THEN c
    ELSE IF ~parse_slice_mut(len, c.pos, 4, 4, 3)
    THEN Corrupted("frame animation bone frames out of bounds or misaligned")
    ELSE PushPosition(c, VectorFromF32s(c.pos), 12)

\* read_bone_frames, the body of the inner loop for one bone and one frame
ReadBoneFrame(flags, c, len) ==
    Then(AnimRot2(flags, c, len), LAMBDA r1 :
    Then(AnimRot(flags, r1, len), LAMBDA r2 :
    Then(AnimPos(flags, r2, len), LAMBDA r3 :
    FullAnimPos(flags, r3, len))))

\* the inner loop (over the bones) for one frame, from bone b on
RECURSIVE FrameBonesLoop(_, _, _, _, _)
FrameBonesLoop(flagBytes, b, pos, data, len) ==
    IF b > Len(flagBytes) THEN Cursor(pos, data)
    ELSE Then(ReadBoneFrame(flagBytes[b], Cursor(pos, data[b]), len), LAMBDA r :
            FrameBonesLoop(flagBytes, b + 1, r.pos, [data EXCEPT ![b] = r.data], len))

\* Loops nested the other way round: every frame of a bone is read before
\* the next bone
RECURSIVE BoneMajorLoop(_, _, _, _, _, _)
BoneMajorLoop(flagBytes, b, k, n, c, len) ==
    IF b > Len(flagBytes) THEN c
    ELSE IF k = 0 THEN BoneMajorLoop(flagBytes, b + 1, n, n, c, len)
    ELSE Then(ReadBoneFrame(flagBytes[b], Cursor(c.pos, c.data[b]), len), LAMBDA r :
            BoneMajorLoop(flagBytes, b, k - 1, n,
                          Cursor(r.pos, [c.data EXCEPT ![b] = r.data]), len))
FramesLoopBoneMajor(flagBytes, n, pos, data, len) ==
    BoneMajorLoop(flagBytes, 1, n, n, Cursor(pos, data), len)

\* the outer loop `for _ in 0..frame_count`, with n frames still to read
RECURSIVE FramesLoop(_, _, _, _, _)
FramesLoop(flagBytes, n, pos, data, len) ==
    IF n = 0 THEN Cursor(pos, data)
    ELSE Then(FrameBonesLoop(flagBytes, 1, pos, data, len), LAMBDA r :
            FramesLoop(flagBytes, n - 1, r.pos, r.data, len))

HasFrameRotation(flags) ==
    Contains(flags, BoneFlags_ANIM_ROT2) \/ Contains(flags, BoneFlags_ANIMROT)
HasFramePosition(flags) ==
    Contains(flags, BoneFlags_ANIMPOS) \/ Contains(flags, BoneFlags_FULLANIMPOS)

\* the number of frames read_bone_frames reads
FramesToRead(fa) == IF fa.last_section THEN fa.frame_count ELSE fa.frame_count + 1

\* A first loop that leaves a slot that holds a constant as it is
EmptyFrameSlots_unless_constant(flagBytes, data) ==
    [b \in DOMAIN data |->
        [rotation |-> IF HasFrameRotation(flagBytes[b]) /\ data[b].rotation.tag # "Constant"
                      THEN Animated(<<>>) ELSE data[b].rotation,
         position |-> IF HasFramePosition(flagBytes[b]) /\ data[b].position.tag # "Constant"
                      THEN Animated(<<>>) ELSE data[b].position]]

\* read_bone_frames, the first loop: the per-frame slots start empty
EmptyFrameSlots(flagBytes, data) ==
    [b \in DOMAIN data |->
        [rotation |-> IF HasFrameRotation(flagBytes[b])
                      THEN Animated(<<>>) ELSE data[b].rotation,
         position |-> IF HasFramePosition(flagBytes[b])
                      THEN Animated(<<>>) ELSE data[b].position]]

\* no bone has a per-frame flag
NoFrameFlags(flagBytes) ==
    \A b \in DOMAIN flagBytes :
        ~HasFrameRotation(flagBytes[b]) /\ ~HasFramePosition(flagBytes[b])

\* FrameAnimationRef::read_bone_frames: Ok(data) or an error.  A frame of
\* bones without per-frame flags reads nothing and changes nothing, so the
\* outer loop is run only if some bone has per-frame flags.
read_bone_frames(fa, flagBytes, data, len) ==
    IF fa.frame_offset = 0 THEN Ok(data)
    ELSE IF ~Take(len, RelativeOffset(fa.offset, fa.frame_offset), 0)
    THEN Corrupted("frame animation bone frames out of bounds")
    ELSE IF NoFrameFlags(flagBytes) THEN Ok(EmptyFrameSlots(flagBytes, data))
    ELSE Then(FramesLoop(flagBytes, FramesToRead(fa),
                         RelativeOffset(fa.offset, fa.frame_offset),
                         EmptyFrameSlots(flagBytes, data), len),
              LAMBDA r : Ok(r.data))

\* FrameAnimationRef::animation_data: Ok(sequence of BoneAnimationData, one
\* per bone) or an error
FrameAnimationRef_animation_data(fa, mem, len) ==
    IF ~bone_flags(fa, len) THEN Corrupted("frame animation bone flags out of bounds")
    ELSE Then(read_bone_constants(fa, BoneFlagBytes(fa, mem),
                                  [b \in 1..fa.bone_count |-> DefaultBoneAnimationData],
                                  len),
              LAMBDA constants :
                read_bone_frames(fa, BoneFlagBytes(fa, mem), constants.value, len))

(***************************************************************************)
(* The legacy per-bone block decoder (IterBoneAnimations, AnimationRef)    *)
(*                                                                         *)
(* A bone is [parent_bone_index, rotation_scale, rotation, position_scale, *)
(* position], the four last ones triples of integers.                      *)
(***************************************************************************)
AnimationFlags_RAWPOS == 1
AnimationFlags_RAWROT == 2
AnimationFlags_ANIMPOS == 4
AnimationFlags_ANIMROT == 8
AnimationFlags_DELTA == 16
AnimationFlags_RAWROT2 == 32

\* parse_mut::<i16>(&mut bytes) is Some for the rest of the buffer from pos
\* (binary_utils, modelled from its contract); it then advances by 2 bytes
parse_mut(len, pos, size, align) ==
    /\ pos % align = 0
    /\ Take(len, pos, size)

\* the Animation record parsed at offset
AnimationAt(mem, offset) ==
    [bone_index |-> U8At(mem, offset),
     flags |-> U8At(mem, offset + 1),
     next_offset |-> I16At(mem, offset + 2)]

\* AnimationValue::from_bytes of the two bytes at p, with valid() and total()
AnimationValue(mem, p) ==
    [v |-> I16At(mem, p), valid |-> U8At(mem, p), total |-> U8At(mem, p + 1)]

\* the `for _ in 0..value.valid()` loop of read_animation_values, with n
\* values still to read
RECURSIVE ReadValidValues(_, _, _, _, _)
ReadValidValues(mem, len, pos, n, values) ==
    IF n = 0 THEN Cursor(pos, values)
    ELSE IF ~Take(len, pos, 2) THEN Corrupted("animation values out of bounds")
    ELSE ReadValidValues(mem, len, pos + 2, n - 1,
                         Append(values, AnimationValue(mem, pos)))

\* the `while total < self.frame_count` loop of read_animation_values
RECURSIVE ReadValuesLoop(_, _, _, _, _, _)
ReadValuesLoop(mem, len, pos, total, values, frame_count) ==
    IF ~(total < frame_count) THEN Ok(values)
    ELSE IF ~Take(len, pos, 2) THEN Corrupted("animation values out of bounds")
    ELSE IF AnimationValue(mem, pos).total = 0 THEN Ok(values)
    ELSE Then(ReadValidValues(mem, len, pos + 2, AnimationValue(mem, pos).valid,
                              Append(values, AnimationValue(mem, pos))),
              LAMBDA r :
                ReadValuesLoop(mem, len, r.pos, total + AnimationValue(mem, pos).total,
                               r.data, frame_count))

\* AnimationRef::read_animation_values, for the rest of the buffer from pos
read_animation_values(mem, len, pos, frame_count) ==
    ReadValuesLoop(mem, len, pos, 0, <<>>, frame_count)

\* values.get(i), i counted from 0
Get(values, i) == IF i >= 0 /\ i < Len(values) THEN Some(values[i + 1]) ELSE None

\* A loop that steps over a run's values but not over its header
RECURSIVE SeekRunOverValues(_, _, _)
SeekRunOverValues(values, k, i) ==
    Bind(Get(values, i), LAMBDA v :
        IF ~v.some THEN None
        ELSE IF v.v.total > k THEN Some(<<k, i>>)
        ELSE IF v.v.total = 0 THEN None
        ELSE SeekRunOverValues(values, k - v.v.total, i + v.v.valid))

\* the `loop` of extract_animation_value: Some(<<k, i>>) at the break, None
\* for `return 0.0`
RECURSIVE SeekRun(_, _, _)
SeekRun(values, k, i) ==
    Bind(Get(values, i), LAMBDA v :
        IF ~v.some THEN None
        ELSE IF v.v.total > k THEN Some(<<k, i>>)
        ELSE IF v.v.total = 0 THEN None
        ELSE SeekRun(values, k - v.v.total, i + v.v.valid + 1))

\* the index extract_animation_value reads in the run whose header is at i,
\* for the k-th frame of the run
RunIndex(values, k, i) ==
    IF values[i + 1].valid > k THEN i + k + 1 ELSE i + values[i + 1].valid

\* values.get(j) scaled, or the default
ScaledAt(values, j, scale) ==
    IF Get(values, j).some THEN values[j + 1].v * scale ELSE 0

\* extract_animation_value(frame, values, scale)
extract_animation_value(frame, values, scale) ==
    Bind(SeekRun(values, frame, 0), LAMBDA at :
        IF ~at.some THEN 0
        ELSE ScaledAt(values, RunIndex(values, at.v[1], at.v[2]), scale))

\* AnimationRef::read_animation_constants, `if flags.contains(RAWROT2)`
LegacyRawRot2(flags, c, len) ==
    IF ~Contains(flags, AnimationFlags_RAWROT2) THEN c
    ELSE IF ~Take(len, c.pos, 8) THEN Corrupted("animation constants out of bounds")
    ELSE SetRotation(c, Constant(QuaternionAt("from_bytes_64", c.pos)), 8)

\* AnimationRef::read_animation_constants, `if flags.contains(RAWROT)`
LegacyRawRot(flags, c, len) ==
    IF ~Contains(flags, AnimationFlags_RAWROT) THEN c
    ELSE IF ~parse_slice_mut(len, c.pos, 2, 2, 3)
    THEN Corrupted("animation constants out of bounds")
    ELSE SetRotation(c, Constant(QuaternionAt("from_u16s", c.pos)), 6)

\* AnimationRef::read_animation_constants, `if flags.contains(RAWPOS)`
LegacyRawPos(flags, c, len) ==
    IF ~Contains(flags, AnimationFlags_RAWPOS) THEN c
    ELSE IF ~parse_slice_mut(len, c.pos, 2, 2, 3)
    THEN Corrupted("animation constants out of bounds")
    ELSE SetPosition(c, Constant(VectorFromU16s(c.pos)), 6)

\* AnimationRef::read_animation_constants: the cursor after the constants
\* and the data, or an error; pos is the position after the Animation record
read_animation_constants(flags, pos, len) ==
    Then(LegacyRawRot2(flags, Cursor(pos, DefaultBoneAnimationData), len), LAMBDA r1 :
    Then(LegacyRawRot(flags, r1, len), LAMBDA r2 :
    LegacyRawPos(flags, r2, len)))

\* One axis of a curve block: the per-frame values of the axis whose offset
\* field is `offset`, read relative to `reference`; Ok(sequence of
\* frame_count numbers) or an error.  An offset that is not positive leaves
\* the axis at Vector::default().
ReadAxis(mem, len, reference, offset, frame_count, scale, oob) ==
    IF ~(offset > 0) THEN Ok([i \in 1..frame_count |-> 0])
    ELSE IF ~(reference + offset <= len) THEN Corrupted(oob)
    ELSE Then(read_animation_values(mem, len, reference + offset, frame_count),
              LAMBDA values :
                Ok([i \in 1..frame_count |->
                        extract_animation_value(i - 1, values.value, scale)]))

\* the frames of a curve block: per frame the three axes plus the rest value
CurveFrames(x, y, z, rest, frame_count) ==
    [i \in 1..frame_count |->
        Vector(Num(x[i] + rest[1]), Num(y[i] + rest[2]), Num(z[i] + rest[3]))]

\* One curve block of read_animation_frames (the rotation one or the
\* position one): the three offsets, the three axes, the rest value added;
\* the cursor after the offsets and the frames, or an error
ReadCurves(mem, len, pos, frame_count, scale, rest, what) ==
    IF ~(/\ parse_mut(len, pos, 2, 2)
         /\ parse_mut(len, pos + 2, 2, 2)
         /\ parse_mut(len, pos + 4, 2, 2))
    THEN Corrupted("animation offsets out of bounds")
    ELSE
    Then(ReadAxis(mem, len, pos, I16At(mem, pos), frame_count, scale[1],
                  "animation " \o what \o " x values out of bounds"), LAMBDA x :
    Then(ReadAxis(mem, len, pos, I16At(mem, pos + 2), frame_count, scale[2],
                  "animation " \o what \o " y values out of bounds"), LAMBDA y :
    Then(ReadAxis(mem, len, pos, I16At(mem, pos + 4), frame_count, scale[3],
                  "animation " \o what \o " z values out of bounds"), LAMBDA z :
    Cursor(pos + 6, CurveFrames(x.value, y.value, z.value, rest, frame_count)))))

\* read_animation_frames, `if flags.contains(AnimationFlags::ANIMROT)`
LegacyAnimRot(a, flags, mem, len, c) ==
    IF ~Contains(flags, AnimationFlags_ANIMROT) THEN c
    ELSE Then(ReadCurves(mem, len, c.pos, a.frame_count,
                         a.bone.rotation_scale, a.bone.rotation, "rotation"),
              LAMBDA r : Cursor(r.pos, [c.data EXCEPT !.rotation = AnimatedEuler(r.data)]))

\* A position block read with the rotation scale of the bone
LegacyAnimPos_rotation_scale(a, flags, mem, len, c) ==
    IF ~Contains(flags, AnimationFlags_ANIMPOS) THEN c
    ELSE Then(ReadCurves(mem, len, c.pos, a.frame_count,
                         a.bone.rotation_scale, a.bone.position, "position"),
              LAMBDA r : Cursor(r.pos, [c.data EXCEPT !.position = Animated(r.data)]))

\* read_animation_frames, `if flags.contains(AnimationFlags::ANIMPOS)`
LegacyAnimPos(a, flags, mem, len, c) ==
    IF ~Contains(flags, AnimationFlags_ANIMPOS) THEN c
    ELSE Then(ReadCurves(mem, len, c.pos, a.frame_count,
                         a.bone.position_scale, a.bone.position, "position"),
              LAMBDA r : Cursor(r.pos, [c.data EXCEPT !.position = Animated(r.data)]))

\* AnimationRef::read_animation_frames: Ok(data) or an error; c is the
\* cursor after the constants and the data they set
read_animation_frames(a, flags, mem, len, c) ==
    Then(LegacyAnimRot(a, flags, mem, len, c), LAMBDA r1 :
    Then(LegacyAnimPos(a, flags, mem, len, r1), LAMBDA r2 :
    Ok(r2.data)))

\* AnimationRef::animation_data: Ok(BoneAnimationData) or an error
AnimationRef_animation_data(a, mem, len) ==
    Then(read_animation_constants(a.animation.flags, a.offset + SizeOfAnimation, len),
         LAMBDA constants :
            read_animation_frames(a, a.animation.flags, mem, len, constants))

\* the AnimationRef next() yields for the record at it.offset
AnimationRefAt(it, mem, bones, frame_count) ==
    [animation |-> AnimationAt(mem, it.offset),
     offset |-> it.offset,
     bone |-> bones[AnimationAt(mem, it.offset).bone_index + 1],
     frame_count |-> frame_count]

\* A next() that yields a block with forward offset 0 and does not end
IterBoneAnimations_next_unended(it, mem, len, bones, frame_count) ==
    IF it.finished THEN [item |-> None, it |-> it]
    ELSE IF ~parse(len, it.offset, SizeOfAnimation, 2) THEN
        [item |-> Some(Corrupted("animation section animation out of bounds or misaligned")),
         it |-> it]
    ELSE Bind(AnimationAt(mem, it.offset), LAMBDA animation :
        IF animation.bone_index = 255 \/ animation.bone_index >= Len(bones) THEN
            [item |-> None, it |-> [it EXCEPT !.finished = TRUE]]
        ELSE IF animation.next_offset < 0 THEN
            [item |-> Some(Corrupted("animation section animation next offset is negative")),
             it |-> it]
        ELSE
            [item |-> Some(Ok(AnimationRefAt(it, mem, bones, frame_count))),
             it |-> [it EXCEPT !.offset = @ + animation.next_offset]])

\* A next() that follows a negative forward offset
IterBoneAnimations_next_backward(it, mem, len, bones, frame_count) ==
    IF it.finished THEN [item |-> None, it |-> it]
    ELSE IF ~parse(len, it.offset, SizeOfAnimation, 2) THEN
        [item |-> Some(Corrupted("animation section animation out of bounds or misaligned")),
         it |-> it]
    ELSE Bind(AnimationAt(mem, it.offset), LAMBDA animation :
        IF animation.bone_index = 255 \/ animation.bone_index >= Len(bones) THEN
            [item |-> None, it |-> [it EXCEPT !.finished = TRUE]]
        ELSE
            [item |-> Some(Ok(AnimationRefAt(it, mem, bones, frame_count))),
             it |-> IF animation.next_offset = 0
                    THEN [it EXCEPT !.finished = TRUE]
                    ELSE [it EXCEPT !.offset = @ + animation.next_offset]])

\* IterBoneAnimations::next: the item (None, Some(Ok(AnimationRef)) or
\* Some(error)) and the iterator [offset, finished] after the call
IterBoneAnimations_next(it, mem, len, bones, frame_count) ==
    IF it.finished THEN [item |-> None, it |-> it]
    ELSE IF ~parse(len, it.offset, SizeOfAnimation, 2) THEN
        [item |-> Some(Corrupted("animation section animation out of bounds or misaligned")),
         it |-> it]
    ELSE Bind(AnimationAt(mem, it.offset), LAMBDA animation :
        IF animation.bone_index = 255 \/ animation.bone_index >= Len(bones) THEN
            [item |-> None, it |-> [it EXCEPT !.finished = TRUE]]
        ELSE IF animation.next_offset < 0 THEN
            [item |-> Some(Corrupted("animation section animation next offset is negative")),
             it |-> it]
        ELSE
            [item |-> Some(Ok(AnimationRefAt(it, mem, bones, frame_count))),
             it |-> IF animation.next_offset = 0
                    THEN [it EXCEPT !.finished = TRUE]
                    ELSE [it EXCEPT !.offset = @ + animation.next_offset]])

\* map.insert(key, value) of a BTreeMap carried as a function
Insert(map, key, value) ==
    [k \in DOMAIN map \cup {key} |-> IF k = key THEN value ELSE map[k]]

\* the legacy arm of AnimationSectionRef::data: the blocks the iterator
\* yields are decoded and collected (try_collect stops at the first error)
RECURSIVE CollectBoneAnimations(_, _, _, _, _, _)
CollectBoneAnimations(it, map, mem, len, bones, frame_count) ==
    Bind(IterBoneAnimations_next(it, mem, len, bones, frame_count), LAMBDA n :
        IF ~n.item.some THEN Ok(map)
        ELSE Then(n.item.v, LAMBDA anim :
             Then(AnimationRef_animation_data(anim.value, mem, len), LAMBDA data :
                CollectBoneAnimations(
                    n.it, Insert(map, anim.value.animation.bone_index, data.value),
                    mem, len, bones, frame_count))))

\* AnimationSectionRef::frame_animation: Ok(FrameAnimationRef) or an error
frame_animation(section, mem, len, bones) ==
    IF ~parse(len, section.anim_offset, SizeOfFrameAnimation, 4) THEN
        Corrupted("animation section frame animation out of bounds or misaligned")
    ELSE Ok([offset |-> section.anim_offset,
             bone_count |-> Len(bones),
             frame_count |-> section.frame_count,
             last_section |-> section.last_section,
             constants_offset |-> I32At(mem, section.anim_offset),
             frame_offset |-> I32At(mem, section.anim_offset + 4)])

\* AnimationSectionRef::iter_bone_animations
iter_bone_animations(section) == [offset |-> section.anim_offset, finished |-> FALSE]

\* An enumeration that counts from 1
EnumerateFromOne(seq) == [i \in 1..Len(seq) |-> seq[i]]

\* .into_iter().enumerate().collect(): the map from 0.. to the elements
Enumerate(seq) == [i \in 0..(Len(seq) - 1) |-> seq[i + 1]]

\* A loop that corrects every bone of the map
CorrectEveryBone(map, bones) ==
    IF \E bone_i \in DOMAIN map : bone_i >= Len(bones)
    THEN Panic("index out of bounds")
    ELSE Ok([bone_i \in DOMAIN map |-> apply_root_correction(map[bone_i])])

\* the loop `for (&bone_i, bone_data) in &mut data` of AnimationSectionRef::data:
\* Ok(the corrected map), or the panic of self.bones[bone_i]
CorrectRoots(map, bones) ==
    IF \E bone_i \in DOMAIN map : bone_i >= Len(bones)
    THEN Panic("index out of bounds")
    ELSE Ok([bone_i \in DOMAIN map |->
                IF bones[bone_i + 1].parent_bone_index < 0
                THEN apply_root_correction(map[bone_i])
                ELSE map[bone_i]])

\* the map AnimationSectionRef::data builds before the root correction
SectionMap(section, is_frame_animation, mem, len, bones) ==
    IF is_frame_animation THEN
        Then(frame_animation(section, mem, len, bones), LAMBDA fa :
        Then(FrameAnimationRef_animation_data(fa.value, mem, len), LAMBDA data :
        Ok(Enumerate(data.value))))
    ELSE CollectBoneAnimations(iter_bone_animations(section),
                               <<>>, mem, len, bones, section.frame_count)

\* AnimationSectionRef::data: Ok(map from bone index to BoneAnimationData)
\* or an error
AnimationSectionRef_data(section, is_frame_animation, mem, len, bones) ==
    Then(SectionMap(section, is_frame_animation, mem, len, bones), LAMBDA map :
        CorrectRoots(map.value, bones))

\* A data() that decodes the descriptor as one section whether or not it has
\* a section table
data_ignoring_sections(d, len, mem, bones, checks) ==
    Then(animation_section(d), LAMBDA section :
        IF ~section.value.some THEN Ok(None)
        ELSE Then(AnimationSectionRef_data(section.value.v, d.frame_animation,
                                           mem, len, bones),
                  LAMBDA map : Ok(Some(map.value))))

\* AnimationDescRef::data: Ok(None), Ok(Some(map)), an error or a panic.
\* d.frame_animation is flags().contains(AnimationDescFlags::FRAMEANIM).
data(d, len, mem, bones, checks) ==
    Then(iter_animation_sections(d, len, mem, checks), LAMBDA sections :
        IF sections.value.some THEN Unsupported("animation sections")
        ELSE Then(animation_section(d), LAMBDA section :
            IF ~section.value.some THEN Ok(None)
            ELSE Then(AnimationSectionRef_data(section.value.v, d.frame_animation,
                                               mem, len, bones),
                      LAMBDA map : Ok(Some(map.value)))))

\* the bytes a buffer is drawn from: the magic's letters, an ASCII letter that
\* is not in the magic, a continuation byte, a 2-byte lead, and a byte that
\* occurs in no UTF-8 text
ByteSamples == {73, 68, 83, 84, 65, 169, 195, 255}

\* the longest buffer drawn for check_signature
MaxSigLen == 4

RECURSIVE SeqsOfLen(_, _)
SeqsOfLen(S, n) ==
    IF n = 0 THEN {<<>>}
    ELSE {Append(s, x) : s \in SeqsOfLen(S, n - 1), x \in S}

SeqsUpTo(S, n) == UNION {SeqsOfLen(S, k) : k \in 0..n}

(***************************************************************************)
(* Buffers for the animation decoders.  The bytes are laid out as the      *)
(* #[repr(C)] records are: AnimationSection, FrameAnimation, Animation.    *)
(***************************************************************************)

\* i16::to_ne_bytes
LE16(n) ==
    LET u == IF n < 0 THEN n + 65536 ELSE n
    IN  <<u % 256, u \div 256>>

\* i32::to_ne_bytes
LE32(n) ==
    LET m == IF n < 0 THEN n - MinI32 ELSE n
    IN  <<m % 256, (m \div 256) % 256, (m \div 65536) % 256,
          (m \div 16777216) + (IF n < 0 THEN 128 ELSE 0)>>

Zeros(n) == [i \in 1..n |-> 0]

RECURSIVE Concat(_)
Concat(seqs) == IF seqs = <<>> THEN <<>> ELSE Head(seqs) \o Concat(Tail(seqs))

\* an AnimationSection record
SectionBytes(anim_block, anim_offset) == LE32(anim_block) \o LE32(anim_offset)

\* a FrameAnimation record (frame_length and unused are 0), the bone flags
\* after it, and zeroed payload up to `length` bytes
FrameRegion(constants_offset, frame_offset, flagBytes, length) ==
    LET head == LE32(constants_offset) \o LE32(frame_offset) \o Zeros(16) \o flagBytes
    IN  head \o Zeros(length - Len(head))

\* the bone table: a root bone and a child of it; the scales and rest values
\* are integers, distinct per axis
Bones ==
    <<[parent_bone_index |-> 0 - 1,
       rotation_scale |-> <<2, 3, 5>>, rotation |-> <<100, 200, 300>>,
       position_scale |-> <<7, 11, 13>>, position |-> <<1000, 2000, 3000>>],
      [parent_bone_index |-> 0,
       rotation_scale |-> <<2, 3, 5>>, rotation |-> <<100, 200, 300>>,
       position_scale |-> <<7, 11, 13>>, position |-> <<1000, 2000, 3000>>]>>

NoBuffer == [animAt |-> 0, anim |-> <<>>]
NoIter == [status |-> "idle", it |-> None, index |-> 0, yielded |-> <<>>,
           error |-> NotCalled]
NoSection == [anim_offset |-> 0, anim_block |-> 0, frame_count |-> 0,
              last_section |-> TRUE, frame_animation |-> FALSE]

NoCall == [fn |-> "none"]

AuxIdle ==
    /\ call = NoCall
    /\ returned = NotCalled

AnimIdle ==
    /\ descs = <<>>
    /\ buffer = NoBuffer
    /\ boneTable = <<>>
    /\ overflowChecks = FALSE
    /\ results = <<>>
    /\ iter = NoIter
    /\ sectionRef = NoSection
    /\ decoded = NotCalled

(***************************************************************************)
(* SpecSig: check_signature on every drawn buffer                          *)
(***************************************************************************)

NoView == [offset |-> 0, field |-> 0, count |-> 0]
NoText == [lastNul |-> 0 - 1, valid |-> TRUE]
NotResolved == [accessor |-> "none", result |-> NotCalled]

OffIdle ==
    /\ text = NoText
    /\ view = NoView
    /\ resolved = NotResolved

InitSig ==
    /\ bytes \in SeqsUpTo(ByteSamples, MaxSigLen)
    /\ bufLen = Len(bytes)
    /\ sigResult = NotCalled
    /\ OffIdle
    /\ AnimIdle
    /\ AuxIdle

CheckSignature ==
    /\ sigResult = NotCalled
    /\ sigResult' = check_signature(bytes)
    /\ UNCHANGED <<bytes, offVars, animVars, auxVars>>

NextSig == CheckSignature

SpecSig == InitSig /\ [][NextSig]_vars

(***************************************************************************)
(* Record accessors: one accessor is called on a drawn record view         *)
(***************************************************************************)

\* buffer lengths: one too short for the primary header, one that holds it
\* and some records after it
BufLens == {64, 480}
\* absolute positions of the record the accessor is called on
ViewOffsets == {0, 8, 400, 408}
\* values of the signed offset field
FieldValues == {0 - 416, 0 - 8, 0 - 4, 0, 4, 6, 40, 64, 100000}
\* values of the signed count field
CountValues == {0 - 1, 0, 1, 2}
\* position of the last NUL byte of the buffer (-1: the buffer holds none)
LastNuls == {0 - 1, 470}

SigIdle ==
    /\ bytes = <<>>
    /\ sigResult = NotCalled

\* the inputs of the record accessors: a buffer length, the text in it, and
\* the record an accessor is called on
InitViews ==
    /\ SigIdle
    /\ AuxIdle
    /\ bufLen \in BufLens
    /\ text \in [lastNul : {n \in LastNuls : n < bufLen}, valid : BOOLEAN]
    /\ view \in [offset : {o \in ViewOffsets : o <= bufLen}, field : FieldValues,
                 count : CountValues]
    /\ resolved = NotResolved
    /\ AnimIdle

\* the accessor returns: what it was and what it returned are recorded
Returns(accessor, result) ==
    /\ sectionRef = NoSection
    /\ resolved' = [accessor |-> accessor, result |-> result]
    /\ UNCHANGED <<sigVars, bufLen, text, view, animVars, auxVars>>

\* Mdl::header: the primary header is the record at position 0 and
\* view.field is its header_2_offset
CallHeader ==
    /\ resolved = NotResolved
    /\ view.offset = 0
    /\ Returns("Mdl::header", header(bufLen, view.field))

\* HeaderRef::name on a HeaderRef that header() returned: the extension
\* header is the record at view.offset = header_2_offset and view.field is
\* its name_offset
CallHeaderName ==
    /\ resolved = NotResolved
    /\ header(bufLen, view.offset).kind = "Ok"
    /\ Returns("HeaderRef::name",
               HeaderRef_name(bufLen, text, header(bufLen, view.offset).value,
                              view.offset, view.field))

CallBoneName ==
    /\ resolved = NotResolved
    /\ Returns("BoneRef::name", BoneRef_name(bufLen, text, view))

CallBoneSurfaceProp ==
    /\ resolved = NotResolved
    /\ Returns("BoneRef::surface_prop", BoneRef_surface_prop(bufLen, text, view))

CallTextureName ==
    /\ resolved = NotResolved
    /\ Returns("TextureRef::name", TextureRef_name(bufLen, text, view))

CallBodyPartName ==
    /\ resolved = NotResolved
    /\ Returns("BodyPartRef::name", BodyPartRef_name(bufLen, text, view))

CallAnimationName ==
    /\ resolved = NotResolved
    /\ Returns("AnimationDescRef::name",
               AnimationDescRef_name(bufLen, text, view))

CallModels ==
    /\ resolved = NotResolved
    /\ Returns("BodyPartRef::models", BodyPartRef_models(bufLen, view))

CallMeshes ==
    /\ resolved = NotResolved
    /\ Returns("ModelRef::meshes", ModelRef_meshes(bufLen, view))

CallMovements ==
    /\ resolved = NotResolved
    /\ Returns("AnimationDescRef::movements",
               AnimationDescRef_movements(bufLen, view))

NextAccessors ==
    \/ CallHeader
    \/ CallHeaderName
    \/ CallBoneName
    \/ CallBoneSurfaceProp
    \/ CallTextureName
    \/ CallBodyPartName
    \/ CallAnimationName
    \/ CallModels
    \/ CallMeshes
    \/ CallMovements


(***************************************************************************)
(* SpecSections: data() and the section iterator on drawn descriptors      *)
(*                                                                         *)
(* The buffer holds a descriptor at position 400 (the one the inputs vary) *)
(* and one at 300; from position 504 on: a section table of MaxSections    *)
(* records, a per-frame bitflag region, a legacy region.                   *)
(***************************************************************************)

\* the number of AnimationSection records the drawn table holds
MaxSections == 7

\* values of AnimationDesc.frame_count
FrameCounts == {MinI32, 0 - 1, 0, 1, 2, 3, MaxSections - 2, MaxI32}
\* values of AnimationDesc.section_frame_count
SectionFrameCounts == {0 - 1, 0, 1, 2}
\* values of AnimationDesc.section_offset: none, the table, a misaligned one
SectionOffsets == {0, 104, 102}
\* the anim_block of the table's records, by index: all in the file, all in
\* external blocks, alternating from an external one
BlockPatterns == {"in_file", "external", "mixed"}

PatternBlock(pattern, i) ==
    CASE pattern = "in_file" -> 0
      [] pattern = "external" -> 1
      [] OTHER -> (i + 1) % 2

SectionsLayout ==
    [descAt |-> 400, peerAt |-> 300, tableAt |-> 504,
     frameAt |-> 504 + SizeOfAnimationSection * MaxSections,
     frameLen |-> 48,
     legacyAt |-> 504 + SizeOfAnimationSection * MaxSections + 48]

\* the table: record i (from 0) lies 16 * i + 4 bytes into its block
TableBytes(pattern) ==
    Concat([k \in 1..MaxSections |->
                SectionBytes(PatternBlock(pattern, k - 1), 16 * (k - 1) + 4)])

\* a per-frame region of two bones: bone 0 has a rotation per frame, bone 1
\* a constant position; the constants lie 28 bytes in, the frames 36
SectionsFrameRegion ==
    FrameRegion(28, 36, <<BoneFlags_ANIMROT, BoneFlags_RAWPOS>>, SectionsLayout.frameLen)

\* a legacy region of one block, the last of its list: bone 0 with a wide
\* constant rotation and a constant position
SectionsLegacyRegion ==
    <<0, AnimationFlags_RAWROT2 + AnimationFlags_RAWPOS>> \o LE16(0) \o Zeros(16)

SectionsBuffer(pattern) ==
    [animAt |-> SectionsLayout.tableAt,
     anim |-> TableBytes(pattern) \o SectionsFrameRegion \o SectionsLegacyRegion]

\* the descriptor at `at` whose animation data lies in the region of its kind
Desc(at, anim_block, frame_count, section_offset, section_frame_count, fa) ==
    [offset |-> at,
     anim_block |-> anim_block,
     anim_offset |-> (IF fa THEN SectionsLayout.frameAt ELSE SectionsLayout.legacyAt) - at,
     frame_count |-> frame_count,
     section_offset |-> section_offset,
     section_frame_count |-> section_frame_count,
     frame_animation |-> fa]

DescSamples ==
    {Desc(SectionsLayout.descAt, b, fc, so, sfc, fa) :
        b \in {0, 1}, fc \in FrameCounts, so \in SectionOffsets,
        sfc \in SectionFrameCounts, fa \in BOOLEAN}

\* the other descriptor: two frames in one in-file section, no table
PeerSamples == {Desc(SectionsLayout.peerAt, 0, 2, 0, 0, fa) : fa \in BOOLEAN}

InitSections ==
    /\ SigIdle
    /\ AuxIdle
    /\ OffIdle
    /\ \E pattern \in BlockPatterns :
        /\ buffer = SectionsBuffer(pattern)
        /\ bufLen = buffer.animAt + Len(buffer.anim)
    /\ descs \in DescSamples \X PeerSamples
    /\ boneTable = Bones
    /\ overflowChecks \in BOOLEAN
    /\ results = [k \in DOMAIN descs |-> NotCalled]
    /\ iter = NoIter
    /\ sectionRef = NoSection
    /\ decoded = NotCalled

\* AnimationDescRef::data on descriptor k
CallData ==
    /\ iter.status = "idle"
    /\ \E k \in DOMAIN descs :
        /\ results[k] = NotCalled
        /\ results' = [results EXCEPT ![k] =
                data(descs[k], bufLen, buffer, boneTable, overflowChecks)]
    /\ UNCHANGED <<sigVars, offVars, auxVars, descs, buffer, boneTable, overflowChecks,
                   iter, sectionRef, decoded>>

\* AnimationDescRef::iter_animation_sections on the first descriptor
IterAnimationSections ==
    /\ iter.status = "idle"
    /\ \A k \in DOMAIN results : results[k] = NotCalled
    /\ LET r == iter_animation_sections(descs[1], bufLen, buffer, overflowChecks)
       IN  iter' = IF r.kind = "Ok" /\ r.value.some
                   THEN [iter EXCEPT !.status = "open", !.it = r.value]
                   ELSE [iter EXCEPT !.status = "closed", !.error = r]
    /\ UNCHANGED <<sigVars, offVars, auxVars, descs, buffer, boneTable, overflowChecks,
                   results, sectionRef, decoded>>

\* next() on the iterator: it yields the next in-file section, or is
\* exhausted, or the closure panics
NextSection ==
    /\ iter.status = "open"
    /\ LET it == iter.it.v
           i == NextInFile(it, iter.index, overflowChecks)
       IN  iter' =
             IF i >= it.sections_len THEN [iter EXCEPT !.status = "exhausted"]
             ELSE LET m == MapSection(it, i, overflowChecks)
                  IN  IF m.kind = "Panic"
                      THEN [iter EXCEPT !.status = "panicked", !.error = m]
                      ELSE [iter EXCEPT !.index = i + 1,
                                        !.yielded = Append(@, [i |-> i, section |-> m.value])]
    /\ UNCHANGED <<sigVars, offVars, auxVars, descs, buffer, boneTable, overflowChecks,
                   results, sectionRef, decoded>>

NextSections ==
    \/ CallData
    \/ IterAnimationSections
    \/ NextSection

SpecSections == InitSections /\ [][NextSections]_vars

(***************************************************************************)
(* SpecFrames: AnimationSectionRef::data on drawn sections                 *)
(*                                                                         *)
(* The section lies at position 600.  A per-frame bitflag section has two  *)
(* bones; its constants lie 28 bytes in.  A legacy section holds one drawn *)
(* block, its curve, and a second block.                                   *)
(***************************************************************************)

\* the largest frame count of a drawn section
MaxFrames == 3

SectionAt == SizeOfHeader1 + 200

\* flag bytes of the first bone: each bit alone, the pairs that set the
\* same slot twice, and a constant with a per-frame field of the same slot
FrameFlagSamples ==
    {0, BoneFlags_RAWPOS, BoneFlags_RAWROT, BoneFlags_CONST_ROT2,
     BoneFlags_CONST_ROT2 + BoneFlags_RAWROT,
     BoneFlags_CONST_ROT2 + BoneFlags_RAWROT + BoneFlags_RAWPOS,
     BoneFlags_CONST_ROT2 + BoneFlags_RAWPOS,
     BoneFlags_ANIMROT, BoneFlags_ANIM_ROT2,
     BoneFlags_ANIM_ROT2 + BoneFlags_ANIMROT,
     BoneFlags_ANIMPOS, BoneFlags_FULLANIMPOS,
     BoneFlags_ANIMPOS + BoneFlags_FULLANIMPOS,
     BoneFlags_ANIM_ROT2 + BoneFlags_ANIMPOS + BoneFlags_RAWROT,
     BoneFlags_ANIMPOS + BoneFlags_RAWPOS}
\* flag bytes of the second bone
PeerFlagSamples == {0, BoneFlags_ANIMROT + BoneFlags_RAWPOS}
\* FrameAnimation.constants_offset and frame_offset
ConstantsOffsets == {0, 28}
FrameOffsets == {0, 64, 66}
\* lengths of the region: cut inside the frames, and long enough for all
FrameRegionLens == {80, 400}

FrameSections ==
    [anim_offset : {SectionAt}, anim_block : {0}, frame_count : 0..MaxFrames,
     last_section : BOOLEAN, frame_animation : {TRUE}]

InitFrameAnimation ==
    /\ sectionRef \in FrameSections
    /\ \E f1 \in FrameFlagSamples, f2 \in PeerFlagSamples, co \in ConstantsOffsets,
          fo \in FrameOffsets, length \in FrameRegionLens :
        buffer = [animAt |-> SectionAt, anim |-> FrameRegion(co, fo, <<f1, f2>>, length)]

\* flag bytes of the drawn legacy block
LegacyFlagSamples ==
    {0, AnimationFlags_RAWPOS, AnimationFlags_RAWROT, AnimationFlags_RAWROT2,
     AnimationFlags_RAWROT2 + AnimationFlags_RAWROT,
     AnimationFlags_RAWROT2 + AnimationFlags_RAWROT + AnimationFlags_RAWPOS,
     AnimationFlags_RAWROT2 + AnimationFlags_RAWPOS,
     AnimationFlags_ANIMROT, AnimationFlags_ANIMPOS,
     AnimationFlags_ANIMROT + AnimationFlags_ANIMPOS,
     AnimationFlags_RAWROT + AnimationFlags_ANIMPOS}
\* what the three offsets of a curve block are: the offset of the curve, 0,
\* a negative one, one beyond the buffer
AxisTriples ==
    {<<"curve", "curve", "curve">>, <<"curve", "zero", "negative">>,
     <<"negative", "curve", "curve">>, <<"curve", "curve", "beyond">>}
\* what next_offset is: 0, the offset of the second block, a negative one
NextKinds == {"end", "chain", "negative"}
\* bone_index of the drawn block: the two bones, an index past the bone
\* table, and the list's terminator
BoneIndexes == {0, 1, 2, 255}

\* a run-length stream: the run (valid 2, total 3) 10 20, the run (valid 1,
\* total 2) 30; a stream that starts with a terminating header; and the run
\* (valid 1, total 1) -40 with a terminating header after it
CurveSamples ==
    {<<2, 3>> \o LE16(10) \o LE16(20) \o <<1, 2>> \o LE16(30), <<0, 0>>,
     <<1, 1>> \o LE16(0 - 40) \o <<0, 0>>}

\* the constants a block with these flags holds
LegacyConstantsLen(flags) ==
    (IF Contains(flags, AnimationFlags_RAWROT2) THEN 8 ELSE 0)
    + (IF Contains(flags, AnimationFlags_RAWROT) THEN 6 ELSE 0)
    + (IF Contains(flags, AnimationFlags_RAWPOS) THEN 6 ELSE 0)

\* the bytes of the offset triples a block with these flags holds
LegacyOffsetsLen(flags) ==
    (IF Contains(flags, AnimationFlags_ANIMROT) THEN 6 ELSE 0)
    + (IF Contains(flags, AnimationFlags_ANIMPOS) THEN 6 ELSE 0)

\* one offset of a triple whose curve lies `distance` bytes after it
AxisOffset(kind, distance) ==
    CASE kind = "curve" -> distance
      [] kind = "zero" -> 0
      [] kind = "negative" -> 0 - 2
      [] OTHER -> 30000

OffsetTriple(axes, distance) ==
    LE16(AxisOffset(axes[1], distance)) \o LE16(AxisOffset(axes[2], distance))
        \o LE16(AxisOffset(axes[3], distance))

\* the drawn block: Animation record, constants (zeroed payload), the offset
\* triples, the curve all axes share; then a second block, the last of the
\* list: bone 1 with a constant position
LegacyRegion(bone_index, flags, axes, next, curve) ==
    LET bodyLen == LegacyConstantsLen(flags) + LegacyOffsetsLen(flags) + Len(curve)
        next_offset == CASE next = "end" -> 0
                         [] next = "chain" -> SizeOfAnimation + bodyLen
                         [] OTHER -> 0 - 4
    IN  <<bone_index, flags>> \o LE16(next_offset)
        \o Zeros(LegacyConstantsLen(flags))
        \o (IF Contains(flags, AnimationFlags_ANIMROT)
            THEN OffsetTriple(axes, LegacyOffsetsLen(flags)) ELSE <<>>)
        \o (IF Contains(flags, AnimationFlags_ANIMPOS)
            THEN OffsetTriple(axes, 6) ELSE <<>>)
        \o curve
        \o <<1, AnimationFlags_RAWPOS>> \o LE16(0) \o Zeros(6)

LegacySections ==
    [anim_offset : {SectionAt}, anim_block : {0}, frame_count : 0..MaxFrames,
     last_section : {TRUE}, frame_animation : {FALSE}]

InitBoneAnimations ==
    /\ sectionRef \in LegacySections
    /\ \E bone_index \in BoneIndexes, flags \in LegacyFlagSamples, axes \in AxisTriples,
          next \in NextKinds, curve \in CurveSamples :
        buffer = [animAt |-> SectionAt,
                  anim |-> LegacyRegion(bone_index, flags, axes, next, curve)]

InitFrames ==
    /\ SigIdle
    /\ AuxIdle
    /\ OffIdle
    /\ InitFrameAnimation \/ InitBoneAnimations
    /\ bufLen = buffer.animAt + Len(buffer.anim)
    /\ boneTable = Bones
    /\ overflowChecks \in BOOLEAN
    /\ descs = <<>>
    /\ results = <<>>
    /\ iter = NoIter
    /\ decoded = NotCalled

\* AnimationSectionRef::data(true): the per-frame bitflag decoder
DecodeFrameAnimation ==
    /\ decoded = NotCalled
    /\ sectionRef.frame_animation
    /\ boneTable # <<>>
    /\ decoded' = AnimationSectionRef_data(sectionRef, TRUE, buffer, bufLen, boneTable)
    /\ UNCHANGED <<sigVars, offVars, auxVars, descs, buffer, boneTable, overflowChecks,
                   results, iter, sectionRef>>

\* AnimationSectionRef::data(false): the legacy per-bone block decoder
DecodeBoneAnimations ==
    /\ decoded = NotCalled
    /\ ~sectionRef.frame_animation
    /\ boneTable # <<>>
    /\ decoded' = AnimationSectionRef_data(sectionRef, FALSE, buffer, bufLen, boneTable)
    /\ UNCHANGED <<sigVars, offVars, auxVars, descs, buffer, boneTable, overflowChecks,
                   results, iter, sectionRef>>

NextFrames ==
    \/ DecodeFrameAnimation
    \/ DecodeBoneAnimations

SpecFrames == InitFrames /\ [][NextFrames]_vars

(***************************************************************************)
(* SpecOffsets: every accessor that resolves a signed offset or count: the *)
(* record accessors on a drawn record, and the legacy block decoder (its   *)
(* curve offsets and next_offset) on a drawn block                         *)
(***************************************************************************)

\* the inputs of the legacy block decoder
InitBlocks ==
    /\ SigIdle
    /\ AuxIdle
    /\ OffIdle
    /\ InitBoneAnimations
    /\ bufLen = buffer.animAt + Len(buffer.anim)
    /\ boneTable = Bones
    /\ overflowChecks = FALSE
    /\ descs = <<>>
    /\ results = <<>>
    /\ iter = NoIter
    /\ decoded = NotCalled

InitOffsets == InitViews \/ InitBlocks

NextOffsets ==
    \/ NextAccessors
    \/ DecodeBoneAnimations

SpecOffsets == InitOffsets /\ [][NextOffsets]_vars

(***************************************************************************)
(* SpecWalk: IterBoneAnimations::next called again and again on a drawn    *)
(* list of legacy blocks                                                   *)
(*                                                                         *)
(* call.it is the iterator [offset, finished], call.calls the number of    *)
(* calls made, call.yielded the offsets of the blocks yielded so far;      *)
(* returned is Ok(item) for the item of the last call.                     *)
(***************************************************************************)

\* the number of blocks of the longest drawn list
MaxBlocks == 3

\* bone_index of a block: the second bone, an index past the bone table, the
\* terminator
BlockBones == {1, 2, 255}
\* next_offset of a block: 0, the next block, the block after it, a negative
\* one, an odd one
ForwardOffsets ==
    {0, SizeOfAnimation, 2 * SizeOfAnimation, 0 - SizeOfAnimation, 3}

BlockLists ==
    UNION {[1..n -> [bone_index : BlockBones, next_offset : ForwardOffsets]] :
           n \in 1..MaxBlocks}

\* the bytes of a list of blocks without constants or curves
RECURSIVE BlockBytes(_)
BlockBytes(blocks) ==
    IF blocks = <<>> THEN <<>>
    ELSE <<Head(blocks).bone_index, 0>> \o LE16(Head(blocks).next_offset)
         \o BlockBytes(Tail(blocks))

InitWalk ==
    /\ SigIdle
    /\ OffIdle
    /\ sectionRef \in {section \in LegacySections : section.frame_count = 1}
    /\ \E blocks \in BlockLists :
        buffer = [animAt |-> SectionAt, anim |-> BlockBytes(blocks)]
    /\ bufLen = buffer.animAt + Len(buffer.anim)
    /\ boneTable = Bones
    /\ overflowChecks = FALSE
    /\ descs = <<>>
    /\ results = <<>>
    /\ iter = NoIter
    /\ decoded = NotCalled
    /\ call = [fn |-> "IterBoneAnimations::next", it |-> iter_bone_animations(sectionRef),
               calls |-> 0, yielded |-> <<>>]
    /\ returned = NotCalled

\* one call of IterBoneAnimations::next
WalkNext ==
    /\ call.fn = "IterBoneAnimations::next"
    /\ call.calls < MaxBlocks + 2
    /\ LET n == IterBoneAnimations_next(call.it, buffer, bufLen, boneTable,
                                        sectionRef.frame_count)
       IN  /\ returned' = Ok(n.item)
           /\ call' = [call EXCEPT
                         !.it = n.it,
                         !.calls = @ + 1,
                         !.yielded = IF n.item.some /\ n.item.v.kind = "Ok"
                                     THEN Append(@, n.item.v.value.offset) ELSE @]
    /\ UNCHANGED <<sigVars, offVars, animVars>>

NextWalk == WalkNext

SpecWalk == InitWalk /\ [][NextWalk]_vars

\* the walk of data(): try_collect calls next() until it yields nothing or
\* an error
SpecWalkFair == SpecWalk /\ WF_vars(WalkNext)

(***************************************************************************)
(* SpecCurves: extract_animation_value on the values read_animation_values *)
(* reads from a drawn run-length curve                                     *)
(*                                                                         *)
(* A curve is a sequence of runs [total, valid, values]; in the buffer a   *)
(* run is its header (bytes valid, total) and then its values as i16.      *)
(***************************************************************************)

\* the number of runs of the longest drawn curve
MaxRuns == 2

\* the runs curves are drawn from: the two runs of the documented example,
\* runs whose frames are all explicit, runs that hold their last value, a
\* run with more values than frames, values that are negative or whose two
\* bytes look like a header (513 = bytes 1, 2; 2 = bytes 2, 0)
RunSamples ==
    {[total |-> 3, valid |-> 2, values |-> <<5, 9>>],
     [total |-> 2, valid |-> 0, values |-> <<>>],
     [total |-> 1, valid |-> 1, values |-> <<513>>],
     [total |-> 2, valid |-> 2, values |-> <<0 - 7, 2>>],
     [total |-> 3, valid |-> 1, values |-> <<11>>],
     [total |-> 1, valid |-> 2, values |-> <<4, 6>>],
     [total |-> 1, valid |-> 0, values |-> <<>>]}

CurveSamplesUpTo(n) == UNION {[1..m -> RunSamples] : m \in 1..n}

\* the bytes of a run, and of a curve followed by a terminating header
RunBytes(run) ==
    <<run.valid, run.total>> \o Concat([j \in 1..Len(run.values) |-> LE16(run.values[j])])
CurveBytes(runs) ==
    Concat([r \in 1..Len(runs) |-> RunBytes(runs[r])]) \o <<0, 0>>

\* the frames the runs of a curve span
RECURSIVE CurveTotal(_)
CurveTotal(runs) ==
    IF runs = <<>> THEN 0 ELSE runs[1].total + CurveTotal(Tail(runs))

\* values of the scale argument
ScaleSamples == {1, 3}

InitCurves ==
    /\ SigIdle
    /\ OffIdle
    /\ AnimIdle
    /\ \E runs \in CurveSamplesUpTo(MaxRuns), scale \in ScaleSamples :
        \E frame_count \in 0..CurveTotal(runs) + 1 :
            \E frame \in 0..(frame_count - 1) :
                call = [fn |-> "extract_animation_value", runs |-> runs,
                        frame_count |-> frame_count, frame |-> frame, scale |-> scale]
    /\ bufLen = Len(CurveBytes(call.runs))
    /\ returned = NotCalled

\* read_animation_values on the curve's bytes, then extract_animation_value
\* for one frame, as read_animation_frames calls them for one axis
ExtractAnimationValue ==
    /\ call.fn = "extract_animation_value"
    /\ returned = NotCalled
    /\ returned' =
        Then(read_animation_values([animAt |-> 0, anim |-> CurveBytes(call.runs)],
                                   bufLen, 0, call.frame_count),
             LAMBDA values :
                Ok(extract_animation_value(call.frame, values.value, call.scale)))
    /\ UNCHANGED <<sigVars, offVars, animVars, call>>

NextCurves == ExtractAnimationValue

SpecCurves == InitCurves /\ [][NextCurves]_vars

(***************************************************************************)
(* SpecModel: Model::verify on three drawn files, then Verified::materials *)
(* on the Verified value it returned                                       *)
(*                                                                         *)
(* The mdl file is [head, len, header_2_offset]: its first bytes           *)
(* (signature, version, checksum), its length and one header field.  The   *)
(* vvd and vtx files are what their own checks return (their readers are   *)
(* not part of the files at hand).  A path is [components, extension].     *)
(***************************************************************************)
UnsupportedVersion(ty, v) == [kind |-> "UnsupportedVersion", ty |-> ty, version |-> v]
ChecksumMismatch(ty) == [kind |-> "ChecksumMismatch", ty |-> ty]
Io(path, kind) == [kind |-> "Io", path |-> path, error |-> kind]

\* the bytes of the mdl file as a buffer
MdlBytes(mdl) == [animAt |-> 0, anim |-> mdl.head]

\* Mdl::version
version(mdl) ==
    IF mdl.len < 8 THEN Corrupted("eof reading version")
    ELSE Ok(I32At(MdlBytes(mdl), 4))

\* Mdl::check_version
check_version(mdl) ==
    Then(version(mdl), LAMBDA v :
        IF v.value \in 44..49 THEN Ok(v.value)
        ELSE UnsupportedVersion("Mdl", v.value))

\* HeaderRef::checksum
HeaderRef_checksum(mdl) == I32At(MdlBytes(mdl), 8)

\* A verify that compares the vtx checksum with the vvd checksum only
verify_vtx_against_vvd(model) ==
    Then(check_signature(model.mdl.head), LAMBDA signature :
    Then(check_version(model.mdl), LAMBDA mdl_version :
    Then(model.vvd.check_signature, LAMBDA vvd_signature :
    Then(model.vvd.check_version, LAMBDA vvd_version :
    Then(model.vtx.check_version, LAMBDA vtx_version :
    Then(header(model.mdl.len, model.mdl.header_2_offset), LAMBDA mdl_header :
    Then(model.vvd.header, LAMBDA vvd_header :
    Then(model.vtx.header, LAMBDA vtx_header :
        IF vtx_header.value # vvd_header.value THEN ChecksumMismatch("Vtx")
        ELSE Ok([mdl_header |-> HeaderRef_checksum(model.mdl),
                 vvd_header |-> vvd_header.value,
                 vtx_header |-> vtx_header.value])))))))))

\* Model::verify: Ok(Verified) or an error; the Verified value is carried as
\* the checksums of its three headers
verify(model) ==
    Then(check_signature(model.mdl.head), LAMBDA signature :
    Then(check_version(model.mdl), LAMBDA mdl_version :
    Then(model.vvd.check_signature, LAMBDA vvd_signature :
    Then(model.vvd.check_version, LAMBDA vvd_version :
    Then(model.vtx.check_version, LAMBDA vtx_version :
    Then(header(model.mdl.len, model.mdl.header_2_offset), LAMBDA mdl_header :
    Then(model.vvd.header, LAMBDA vvd_header :
    Then(model.vtx.header, LAMBDA vtx_header :
        IF vvd_header.value # HeaderRef_checksum(model.mdl) THEN ChecksumMismatch("Vvd")
        ELSE IF vtx_header.value # HeaderRef_checksum(model.mdl)
        THEN ChecksumMismatch("Vtx")
        ELSE Ok([mdl_header |-> HeaderRef_checksum(model.mdl),
                 vvd_header |-> vvd_header.value,
                 vtx_header |-> vtx_header.value])))))))))

\* the length of a whole mdl file, and where its tables and strings lie
SizeOfTexture == 64
MdlLen == 5 * SizeOfHeader1
TexturesAt == SizeOfHeader1
TexturePathsAt == TexturesAt + 8 * SizeOfTexture
DirModelsAt == TexturePathsAt + 200
DirSharedAt == DirModelsAt + 100
NameWoodAt == DirSharedAt + 100
NameMetalAt == NameWoodAt + 100
UnterminatedAt == MdlLen - 10

\* the text of the mdl file: the strings that end with a NUL, by position
StringAt(offset) ==
    CASE offset = DirModelsAt -> "models/props"
      [] offset = DirSharedAt -> "shared"
      [] offset = NameWoodAt -> "wood"
      [] offset = NameMetalAt -> "metal"
      [] OTHER -> "?"

\* str::from_utf8(null_terminated_prefix(bytes.get(offset..))) on that text:
\* the last NUL of the file lies before UnterminatedAt
StrAt(len, offset, oob, eof, utf8) ==
    Then(NameAt(len, [lastNul |-> UnterminatedAt - 1, valid |-> TRUE], offset,
                oob, eof, utf8),
         LAMBDA name : Ok(StringAt(name.value.at)))

\* one entry of the texture path table
TexturePath(len, offset) ==
    IF offset < 0 THEN Corrupted("a texture path offset is negative")
    ELSE IF offset = 0 THEN Ok("")
    ELSE StrAt(len, offset, "a texture path is out of bounds",
               "eof reading a texture path", "a texture path is not valid utf8")

\* .map(..).try_collect() over the entries from index i on
RECURSIVE TexturePathsFrom(_, _, _)
TexturePathsFrom(len, path_offsets, i) ==
    IF i > Len(path_offsets) THEN Ok(<<>>)
    ELSE Then(TexturePath(len, path_offsets[i]), LAMBDA path :
         Then(TexturePathsFrom(len, path_offsets, i + 1), LAMBDA rest :
            Ok(<<path.value>> \o rest.value)))

\* HeaderRef::texture_paths; h holds the header fields and h.path_offsets
\* the i32 words that lie at TexturePathsAt
texture_paths(h) ==
    IF h.texture_dir_offset < 0 THEN Corrupted("texture paths offset is negative")
    ELSE IF h.texture_dir_count < 0 THEN Corrupted("texture paths count is negative")
    ELSE IF ~parse_slice(h.len, h.texture_dir_offset, 4, 4, h.texture_dir_count)
    THEN Corrupted("texture paths out of bounds or misaligned")
    ELSE TexturePathsFrom(h.len, SubSeq(h.path_offsets, 1, h.texture_dir_count), 1)

\* HeaderRef::iter_textures: Ok(the TextureRefs) or an error; h.name_offsets
\* are the name_offset fields of the Texture records at TexturesAt
iter_textures(h) ==
    IF h.texture_offset < 0 THEN Corrupted("texture offset is negative")
    ELSE IF h.texture_count < 0 THEN Corrupted("texture count is negative")
    ELSE IF ~parse_slice(h.len, h.texture_offset, SizeOfTexture, 4, h.texture_count)
    THEN Corrupted("textures out of bounds or misaligned")
    ELSE Ok([i \in 1..h.texture_count |->
                [offset |-> h.texture_offset + (i - 1) * SizeOfTexture,
                 field |-> h.name_offsets[i]]])

\* PathBuf::from("materials") with path and name pushed and the extension set
\* (an empty path pushes nothing)
Candidate(path, name) ==
    [components |-> <<"materials">> \o (IF path = "" THEN <<>> ELSE <<path>>) \o <<name>>,
     extension |-> "vmt"]

\* name.with_extension("vmt")
NameWithExtension(name) == [components |-> <<name>>, extension |-> "vmt"]

\* file_system.open_file(candidate): "Ok" or the kind of the io::Error
open_file(file_system, candidate) == file_system[candidate]

\* A search that gives up at the first directory that lacks the file
RECURSIVE SearchFirstOnly(_, _, _, _)
SearchFirstOnly(texture_paths_, i, name, file_system) ==
    IF i > Len(texture_paths_)
    THEN Io(NameWithExtension(name), "NotFound")
    ELSE Bind(Candidate(texture_paths_[i], name), LAMBDA candidate :
        IF open_file(file_system, candidate) = "Ok" THEN Ok(candidate)
        ELSE Io(candidate, open_file(file_system, candidate)))

\* the loop `for &path in texture_paths` of find_material and what follows it
RECURSIVE Search(_, _, _, _)
Search(texture_paths_, i, name, file_system) ==
    IF i > Len(texture_paths_)
    THEN Io(NameWithExtension(name), "NotFound")
    ELSE Bind(Candidate(texture_paths_[i], name), LAMBDA candidate :
        IF open_file(file_system, candidate) = "Ok" THEN Ok(candidate)
        ELSE IF open_file(file_system, candidate) # "NotFound"
        THEN Io(candidate, open_file(file_system, candidate))
        ELSE Search(texture_paths_, i + 1, name, file_system))

\* find_material
find_material(len, texture, texture_paths_, file_system) ==
    Then(StrAt(len, RelativeOffset(texture.offset, texture.field),
               "texture name out of bounds", "eof reading texture name",
               "texture name is not valid utf8"),
         LAMBDA name : Search(texture_paths_, 1, name.value, file_system))

\* .map(|texture| find_material(..)).try_collect() over the textures from i on
RECURSIVE MaterialsFrom(_, _, _, _, _)
MaterialsFrom(len, textures, i, texture_paths_, file_system) ==
    IF i > Len(textures) THEN Ok(<<>>)
    ELSE Then(find_material(len, textures[i], texture_paths_, file_system),
              LAMBDA material :
         Then(MaterialsFrom(len, textures, i + 1, texture_paths_, file_system),
              LAMBDA rest : Ok(<<material.value>> \o rest.value)))

\* Verified::materials
materials(h, file_system) ==
    Then(texture_paths(h), LAMBDA paths :
    Then(iter_textures(h), LAMBDA textures :
        MaterialsFrom(h.len, textures.value, 1, paths.value, file_system)))

\* the longest drawn table of texture search directories
MaxDirs == 2

\* the mdl files drawn: an empty one, one with another signature, files cut
\* after the signature, after the version and inside the header, whole ones
MdlHeads ==
    {[sig |-> MAGIC, len |-> 0], [sig |-> <<73, 68, 83, 81>>, len |-> MdlLen],
     [sig |-> MAGIC, len |-> 4], [sig |-> MAGIC, len |-> 8],
     [sig |-> MAGIC, len |-> SizeOfHeader1 - 4], [sig |-> MAGIC, len |-> MdlLen]}
Versions == {43, 44, 49, 50}
Checksums == {1234567, 0 - 2}

MdlFile(h, v, checksum, header_2_offset) ==
    [head |-> SubSeq(h.sig \o LE32(v) \o LE32(checksum), 1, Min(h.len, 12)),
     len |-> h.len,
     header_2_offset |-> header_2_offset]

MdlFiles ==
    {MdlFile(h, v, c, o) : h \in MdlHeads, v \in Versions, c \in Checksums,
                           o \in {0, MdlLen}}

\* what the vvd file's and the vtx file's checks return
VvdFiles ==
    [check_signature : {Ok(<<>>), InvalidSignature(<<73, 68, 83, 84>>)},
     check_version : {Ok(4), UnsupportedVersion("Vvd", 5)},
     header : {Ok(c) : c \in Checksums} \cup {Corrupted("eof reading header")}]
VtxFiles ==
    [check_version : {Ok(7), UnsupportedVersion("Vtx", 8)},
     header : {Ok(c) : c \in Checksums} \cup {Corrupted("eof reading header")}]

\* the entries of a texture path table: no prefix, two directories, a
\* negative offset, a string without its NUL
PathOffsets == {0, DirModelsAt, DirSharedAt, 0 - 1, UnterminatedAt}

\* the texture tables drawn, as the absolute positions of the names
TextureNames ==
    {<<>>, <<NameWoodAt>>, <<NameWoodAt, NameMetalAt>>, <<NameMetalAt, NameWoodAt>>,
     <<NameWoodAt, MdlLen + 8>>}

\* texture_dir_offset and texture_dir_count for a table of n entries
DirFields(n) ==
    {<<TexturePathsAt, n>>, <<0 - 4, n>>, <<TexturePathsAt + 2, n>>,
     <<TexturePathsAt, 0 - 1>>, <<TexturePathsAt, MdlLen>>}

MdlHeader(path_offsets, names, d) ==
    [len |-> MdlLen,
     texture_dir_offset |-> d[1], texture_dir_count |-> d[2],
     path_offsets |-> path_offsets,
     texture_offset |-> TexturesAt, texture_count |-> Len(names),
     name_offsets |-> [i \in 1..Len(names) |->
                           names[i] - (TexturesAt + (i - 1) * SizeOfTexture)]]

MdlHeaders ==
    UNION {{MdlHeader(path_offsets, names, d) :
                names \in TextureNames, d \in DirFields(Len(path_offsets))} :
           path_offsets \in SeqsUpTo(PathOffsets, MaxDirs)}

\* the candidates the drawn tables can name
Candidates ==
    {Candidate(path, name) : path \in {"", "models/props", "shared"},
                             name \in {"wood", "metal"}}

\* the file systems drawn: any of the three outcomes for each candidate of
\* wood; metal lies in "shared" only
FileSystems ==
    {fs \in [Candidates -> {"Ok", "NotFound", "PermissionDenied"}] :
        \A path \in {"", "models/props", "shared"} :
            fs[Candidate(path, "metal")] = IF path = "shared" THEN "Ok" ELSE "NotFound"}

InitModel ==
    /\ SigIdle
    /\ OffIdle
    /\ AnimIdle
    /\ bufLen = 0
    /\ call \in [fn : {"Model::verify"},
                 model : [mdl : MdlFiles, vvd : VvdFiles, vtx : VtxFiles]]
    /\ returned = NotCalled

\* Model::verify
Verify ==
    /\ call.fn = "Model::verify"
    /\ returned = NotCalled
    /\ returned' = verify(call.model)
    /\ UNCHANGED <<sigVars, offVars, animVars, call>>

\* Verified::materials, a method of the value verify returned, on a drawn
\* header and file system
Materials ==
    /\ call.fn = "Model::verify"
    /\ returned.kind = "Ok"
    /\ \E h \in MdlHeaders, file_system \in FileSystems :
        /\ call' = [fn |-> "Verified::materials", model |-> call.model,
                    verified |-> returned.value, header |-> h,
                    file_system |-> file_system]
        /\ returned' = materials(h, file_system)
    /\ UNCHANGED <<sigVars, offVars, animVars>>

NextModel ==
    \/ Verify
    \/ Materials

SpecModel == InitModel /\ [][NextModel]_vars

(***************************************************************************)
(* SpecCodecs: the packed-quaternion codecs and f16_to_f64 on drawn inputs *)
(*                                                                         *)
(* The codecs compute in f64.  Here a component is the exact ratio         *)
(* [num, den] it is computed from, and the reconstructed component is      *)
(* [of, sign, nan]: the square root of 1 - a*a - b*b - c*c for the ratios  *)
(* `of`, times sign, NaN when the radicand is negative.  The drawn inputs  *)
(* lie far from the radicand's zero, where rounding cannot change its      *)
(* sign.  A decoded half float is the dyadic sign * significand * 2^exp,   *)
(* or an infinity, or a NaN.                                               *)
(***************************************************************************)
Ratio(n, d) == [num |-> n, den |-> d]

Abs(n) == IF n < 0 THEN 0 - n ELSE n

\* e * e for 0 <= e <= 2^21 as hi * 2^20 + lo, within 32-bit integers
Sq(e) ==
    LET eh == e \div 1024
        el == e % 1024
        m == 2 * eh * el
        low == (m % 1024) * 1024 + el * el
    IN  [hi |-> eh * eh + m \div 1024 + low \div 1048576, lo |-> low % 1048576]

Sum3(p, q, r) ==
    [hi |-> p.hi + q.hi + r.hi + (p.lo + q.lo + r.lo) \div 1048576,
     lo |-> (p.lo + q.lo + r.lo) % 1048576]

Leq(p, q) == p.hi < q.hi \/ (p.hi = q.hi /\ p.lo <= q.lo)

\* 1.0 - a * a - b * b - c * c is negative, for ratios whose denominators
\* are 1 or divide the largest one
RadicandNegative(a, b, c) ==
    LET D == Max(a.den, Max(b.den, c.den))
        Scaled(r) == Abs(r.num) * (D \div r.den)
    IN  ~Leq(Sum3(Sq(Scaled(a)), Sq(Scaled(b)), Sq(Scaled(c))), Sq(D))

\* (1.0 - a * a - b * b - c * c).sqrt() * sign
MissingComponent(a, b, c, sign) ==
    [of |-> <<a, b, c>>, sign |-> sign, nan |-> RadicandNegative(a, b, c)]

\* Quaternion::from_bytes_48; bytes[i + 1] is the code's bytes[i]
from_bytes_48(b) ==
    LET a == Ratio((b[2] % 128) * 256 + b[1] - 16384, 23168)
        b_ == Ratio((b[4] % 128) * 256 + b[3] - 16384, 23168)
        c == Ratio((b[6] % 128) * 256 + b[5] - 16384, 23168)
        missing_component_index == (b[2] \div 128) * 2 + (b[4] \div 128)
        missing_component ==
            MissingComponent(a, b_, c, IF b[6] \div 128 > 0 THEN 0 - 1 ELSE 1)
    IN  CASE missing_component_index = 1 ->
                [x |-> missing_component, y |-> a, z |-> b_, w |-> c]
          [] missing_component_index = 2 ->
                [x |-> c, y |-> missing_component, z |-> a, w |-> b_]
          [] missing_component_index = 3 ->
                [x |-> b_, y |-> c, z |-> missing_component, w |-> a]
          [] OTHER ->
                [x |-> a, y |-> b_, z |-> c, w |-> missing_component]

\* Quaternion::from_bytes_64; (v - 1048576.0) / 1048576.5 is carried as
\* 2 * (v - 1048576) over 2097153
from_bytes_64(b) ==
    LET x == b[1] + b[2] * 256 + (b[3] % 32) * 65536
        y == b[3] \div 32 + b[4] * 8 + b[5] * 2048 + (b[6] % 4) * 524288
        z == b[6] \div 4 + b[7] * 64 + (b[8] % 128) * 16384
        X == Ratio(2 * (x - 1048576), 2097153)
        Y == Ratio(2 * (y - 1048576), 2097153)
        Z == Ratio(2 * (z - 1048576), 2097153)
    IN  [x |-> X, y |-> Y, z |-> Z,
         w |-> MissingComponent(X, Y, Z, IF b[8] \div 128 > 0 THEN 0 - 1 ELSE 1)]

\* Quaternion::from_u16s
from_u16s(u16s) ==
    LET x == Ratio(u16s[1] - 32768, 32768)
        y == Ratio(u16s[2] - 32768, 32768)
        z == Ratio((u16s[3] % 32768) - 16384, 16384)
    IN  [x |-> x, y |-> y, z |-> z,
         w |-> MissingComponent(x, y, z, IF u16s[3] \div 32768 > 0 THEN 0 - 1 ELSE 1)]

\* sign * n * 2^e with n odd, or zero
RECURSIVE Dyadic(_, _, _)
Dyadic(sign, n, e) ==
    IF n = 0 THEN [kind |-> "Finite", sign |-> sign, significand |-> 0, exp |-> 0]
    ELSE IF n % 2 = 0 THEN Dyadic(sign, n \div 2, e + 1)
    ELSE [kind |-> "Finite", sign |-> sign, significand |-> n, exp |-> e]

\* f64::from(f32::from_bits(sign << 31 | exponent << 23 | fraction)) for
\* fields that do not overlap
f32_from_bits(sign, exponent, fraction) ==
    IF exponent = 255 THEN
        IF fraction = 0 THEN [kind |-> "Infinite", sign |-> sign] ELSE [kind |-> "NaN"]
    ELSE IF exponent = 0 THEN Dyadic(sign, fraction, 0 - 149)
    ELSE Dyadic(sign, 8388608 + fraction, exponent - 127 - 23)

\* A decoder that hands every word to the f32 conversion
f16_as_f32(f16) ==
    LET mantissa == f16 % 1024
        biased_exponent == (f16 \div 1024) % 32
        sign == f16 \div 32768
        float_sign == IF sign = 1 THEN 0 - 1 ELSE 1
    IN  f32_from_bits(float_sign, IF biased_exponent = 31 THEN 255
                                  ELSE IF biased_exponent = 0 THEN 0
                                  ELSE biased_exponent + 127 - 15,
                      mantissa * 8192)

\* f16_to_f64
f16_to_f64(f16) ==
    LET mantissa == f16 % 1024
        biased_exponent == (f16 \div 1024) % 32
        sign == f16 \div 32768
        float_sign == IF sign = 1 THEN 0 - 1 ELSE 1
    IN  IF biased_exponent = 31 THEN
            IF mantissa = 0 THEN Dyadic(float_sign, 65504, 0)
            ELSE Dyadic(1, 0, 0)
        ELSE IF biased_exponent = 0 /\ mantissa # 0
        THEN Dyadic(float_sign, mantissa, 0 - 10 - 14)
        ELSE f32_from_bits(float_sign, biased_exponent + 127 - 15, mantissa * 8192)

\* the 15-bit fields drawn: the ends, the middle, and values on both sides
\* of the sphere's surface on the diagonal
Raw15 == {0, 16384, 16384 + 13000, 16384 + 14000, 32767}
\* the 21-bit fields drawn
Raw21 == {0, 1048576, 1048576 + 600000, 1048576 + 610000, 2097151}
\* the u16 fields drawn
Raw16 == {0, 32768, 32768 + 18000, 32768 + 19000, 65535}

\* the six bytes that pack three 15-bit fields, the index of the missing
\* component and its sign
Pack48(ra, rb, rc, index, negative) ==
    <<ra % 256, ra \div 256 + 128 * (index \div 2),
      rb % 256, rb \div 256 + 128 * (index % 2),
      rc % 256, rc \div 256 + 128 * negative>>

\* the eight bytes that pack three 21-bit fields and the sign of w
Pack64(x, y, z, negative) ==
    <<x % 256, (x \div 256) % 256, x \div 65536 + 32 * (y % 8),
      (y \div 8) % 256, (y \div 2048) % 256, y \div 524288 + 4 * (z % 64),
      (z \div 64) % 256, z \div 16384 + 128 * negative>>

CodecCalls ==
    {[fn |-> "Quaternion::from_bytes_48", input |-> Pack48(ra, rb, rc, index, negative)] :
        ra \in Raw15, rb \in Raw15, rc \in Raw15, index \in 0..3, negative \in 0..1}
    \cup {[fn |-> "Quaternion::from_bytes_64", input |-> Pack64(x, y, z, negative)] :
            x \in Raw21, y \in Raw21, z \in Raw21, negative \in 0..1}
    \cup {[fn |-> "Quaternion::from_u16s", input |-> <<x, y, z>>] :
            x \in Raw16, y \in Raw16, z \in Raw16}
    \cup {[fn |-> "f16_to_f64", input |-> f16] : f16 \in 0..65535}

InitCodecs ==
    /\ SigIdle
    /\ OffIdle
    /\ AnimIdle
    /\ bufLen = 0
    /\ call \in CodecCalls
    /\ returned = NotCalled

FromBytes48 ==
    /\ call.fn = "Quaternion::from_bytes_48"
    /\ returned = NotCalled
    /\ returned' = Ok(from_bytes_48(call.input))
    /\ UNCHANGED <<sigVars, offVars, animVars, call>>

FromBytes64 ==
    /\ call.fn = "Quaternion::from_bytes_64"
    /\ returned = NotCalled
    /\ returned' = Ok(from_bytes_64(call.input))
    /\ UNCHANGED <<sigVars, offVars, animVars, call>>

FromU16s ==
    /\ call.fn = "Quaternion::from_u16s"
    /\ returned = NotCalled
    /\ returned' = Ok(from_u16s(call.input))
    /\ UNCHANGED <<sigVars, offVars, animVars, call>>

F16ToF64 ==
    /\ call.fn = "f16_to_f64"
    /\ returned = NotCalled
    /\ returned' = Ok(f16_to_f64(call.input))
    /\ UNCHANGED <<sigVars, offVars, animVars, call>>

NextCodecs ==
    \/ FromBytes48
    \/ FromBytes64
    \/ FromU16s
    \/ F16ToF64

SpecCodecs == InitCodecs /\ [][NextCodecs]_vars

(***************************************************************************)
(* SpecVdf: the token parsers of vdf/parsers.rs on drawn inputs            *)
(*                                                                         *)
(* An input is a sequence of characters (strings of length 1).  A parser   *)
(* returns POk(rest, out), PError(code) for nom's Err::Error, or           *)
(* PFailure(code) for Err::Failure.  A parser handed to a combinator is    *)
(* named by a string and run by Parse.  The combinators of nom are         *)
(* modelled from the behaviour of its `complete` parsers.                  *)
(***************************************************************************)
POk(rest, out) == [kind |-> "Ok", rest |-> rest, out |-> out]
PError(code) == [kind |-> "Error", code |-> code]
PFailure(code) == [kind |-> "Failure", code |-> code]

\* the characters of multispace1 and of space0 / space1
Multispace == {" ", "\t", "\r", "\n"}
Spaces == {" ", "\t"}
\* none_of("{}\"\r\n/ \t")
UnquotedStops == {"{", "}", "\"", "\r", "\n", "/", " ", "\t"}

\* the input from its n-th character on (1-based)
From(i, n) == SubSeq(i, n, Len(i))

\* the length of the longest prefix of i made of characters of S
RECURSIVE Run(_, _)
Run(i, S) == IF i # <<>> /\ Head(i) \in S THEN 1 + Run(Tail(i), S) ELSE 0

\* the length of the longest prefix of i without a character of S
RECURSIVE RunUntil(_, _)
RunUntil(i, S) == IF i # <<>> /\ Head(i) \notin S THEN 1 + RunUntil(Tail(i), S) ELSE 0

\* nom: tag, char, none_of, take_till, multispace1, space0, space1
tag(t, i) ==
    IF Len(i) >= Len(t) /\ SubSeq(i, 1, Len(t)) = t THEN POk(From(i, Len(t) + 1), t)
    ELSE PError("Tag")
char(c, i) ==
    IF i # <<>> /\ Head(i) = c THEN POk(Tail(i), c) ELSE PError("Char")
none_of(S, i) ==
    IF i # <<>> /\ Head(i) \notin S THEN POk(Tail(i), Head(i)) ELSE PError("NoneOf")
take_till(S, i) == POk(From(i, RunUntil(i, S) + 1), SubSeq(i, 1, RunUntil(i, S)))
multispace1(i) ==
    IF Run(i, Multispace) = 0 THEN PError("MultiSpace")
    ELSE POk(From(i, Run(i, Multispace) + 1), SubSeq(i, 1, Run(i, Multispace)))
space0(i) == POk(From(i, Run(i, Spaces) + 1), SubSeq(i, 1, Run(i, Spaces)))
space1(i) == IF Run(i, Spaces) = 0 THEN PError("Space") ELSE space0(i)
\* nom: preceded(first, second), terminated(first, second), with the results
\* of first on i and of second on what first left
ThenParse(r, P(_)) == IF r.kind # "Ok" THEN r ELSE P(r.rest)
KeepFirst(r, s) == IF s.kind # "Ok" THEN s ELSE POk(s.rest, r.out)

\* nom: alt, given the results of the two parsers on the same input
alt(r, s) == IF r.kind = "Error" THEN s ELSE r

\* nom: not(parser), given the parser's result on i
not(r, i) ==
    IF r.kind = "Ok" THEN PError("Not")
    ELSE IF r.kind = "Error" THEN POk(i, <<>>)
    ELSE r

\* nom: opt(parser), given the parser's result on i
opt(r, i) == IF r.kind = "Error" THEN POk(i, <<>>) ELSE r

\* nom: recognize(parser), given the parser's result on i
recognize(r, i) ==
    IF r.kind # "Ok" THEN r ELSE POk(r.rest, SubSeq(i, 1, Len(i) - Len(r.rest)))

\* ignore(parser), given the parser's result
ignore(r) == IF r.kind # "Ok" THEN r ELSE POk(r.rest, <<>>)

\* comment
comment(i) ==
    ThenParse(tag(<<"/", "/">>, i), LAMBDA rest : take_till({"\r", "\n"}, rest))

\* quoted_token
quoted_token(i) ==
    ThenParse(char("\"", i), LAMBDA rest :
        KeepFirst(take_till({"\""}, rest),
                  ThenParse(take_till({"\""}, rest), LAMBDA closing : char("\"", closing))))

\* unquoted_char_nonspace
unquoted_char_nonspace(i) ==
    alt(none_of(UnquotedStops, i),
        KeepFirst(char("/", i),
                  ThenParse(char("/", i), LAMBDA rest : not(char("/", rest), rest))))

\* the parsers handed to ignore_many0 and ignore_many1, by name: those of
\* the source, and some that succeed on nothing or fail for good
Parse(f, i) ==
    CASE f = "alt((multispace1, comment))" -> alt(multispace1(i), comment(i))
      [] f = "unquoted_char_nonspace" -> unquoted_char_nonspace(i)
      [] f = "alt((ignore(unquoted_char_nonspace), ignore(terminated(space1, unquoted_char_nonspace))))" ->
            alt(ignore(unquoted_char_nonspace(i)),
                ignore(KeepFirst(space1(i),
                                 ThenParse(space1(i), unquoted_char_nonspace))))
      [] f = "space0" -> space0(i)
      [] f = "opt(comment)" -> opt(comment(i), i)
      [] f = "cut(char('a'))" ->
            IF char("a", i).kind = "Error" THEN PFailure("Char") ELSE char("a", i)
      [] OTHER -> PError("Fail")

\* A loop trip without the test that the parser consumed
LoopTripUnchecked(f, input, code) ==
    IF Parse(f, input).kind = "Ok"
    THEN [return |-> FALSE, input |-> Parse(f, input).rest]
    ELSE IF Parse(f, input).kind = "Error"
    THEN [return |-> TRUE, result |-> POk(input, <<>>)]
    ELSE [return |-> TRUE, result |-> Parse(f, input)]

\* one trip of the `loop` of ignore_many0 and ignore_many1 on input: the
\* value returned, or the input of the next trip
LoopTrip(f, input, code) ==
    IF Parse(f, input).kind = "Ok" THEN
        IF Parse(f, input).rest = input
        THEN [return |-> TRUE, result |-> PError(code)]
        ELSE [return |-> FALSE, input |-> Parse(f, input).rest]
    ELSE IF Parse(f, input).kind = "Error"
    THEN [return |-> TRUE, result |-> POk(input, <<>>)]
    ELSE [return |-> TRUE, result |-> Parse(f, input)]

\* the first call of f in ignore_many1, before its loop
FirstTrip(f, input) ==
    IF Parse(f, input).kind = "Error" THEN [return |-> TRUE, result |-> PError("Many1")]
    ELSE IF Parse(f, input).kind # "Ok" THEN [return |-> TRUE, result |-> Parse(f, input)]
    ELSE [return |-> FALSE, input |-> Parse(f, input).rest]

\* the loop run to its return; trips bounds the unfolding, and a loop that
\* has not returned after that many trips is reported as such
RECURSIVE Loop(_, _, _, _)
Loop(f, input, code, trips) ==
    IF trips = 0 THEN [kind |-> "Looping"]
    ELSE IF LoopTrip(f, input, code).return THEN LoopTrip(f, input, code).result
    ELSE Loop(f, LoopTrip(f, input, code).input, code, trips - 1)

\* ignore_many0(f)
ignore_many0(f, i) == Loop(f, i, "Many0", Len(i) + 2)

\* ignore_many1(f)
ignore_many1(f, i) ==
    IF FirstTrip(f, i).return THEN FirstTrip(f, i).result
    ELSE Loop(f, FirstTrip(f, i).input, "Many1", Len(i) + 2)

\* multispace_comment0
multispace_comment0(i) == ignore_many0("alt((multispace1, comment))", i)

\* unquoted_key
unquoted_key(i) == recognize(ignore_many1("unquoted_char_nonspace", i), i)

\* unquoted_value
unquoted_value(i) ==
    recognize(
        ignore_many1(
            "alt((ignore(unquoted_char_nonspace), ignore(terminated(space1, unquoted_char_nonspace))))",
            i),
        i)

\* An any_key that does not skip what precedes the token
any_key_unskipped(i) == alt(quoted_token(i), unquoted_key(i))

\* any_key
any_key(i) ==
    ThenParse(multispace_comment0(i), LAMBDA rest :
        alt(quoted_token(rest), unquoted_key(rest)))

\* A value that is an unquoted key
any_value_as_key(i) ==
    ThenParse(multispace_comment0(i), LAMBDA rest :
        alt(quoted_token(rest), unquoted_key(rest)))

\* any_value
any_value(i) ==
    ThenParse(multispace_comment0(i), LAMBDA rest :
        alt(quoted_token(rest), unquoted_value(rest)))

\* the length of the longest drawn input
MaxInput == 5

\* the characters inputs are drawn from
InputChars == {"a", " ", "\n", "\"", "/", "{"}

\* a string as the sequence of its characters is written out; these are the
\* inputs of the tests of the source
TestInputs ==
    {<<"\r", "\n", "\t", " ", " ", "\"", "a", " ", "q", "\"", " ", "v">>,
     <<"\r", "\n", "\t", " ", "$", "u", "K", " ", "r">>,
     <<" ", "\"", "q", " ", "v", "\"">>,
     <<"\t", "c", "\\", "m", "\\", "s", ".", "m">>,
     <<" ", "u", " ", "v", " ", "w", "/", "s", " ", "/", "/", " ", "c">>,
     <<"\t", "/", "/", "t", " ", "c", "\r", "\n", "\t", "N", " ", "A">>,
     <<"\r", "\n", "\t", "/", "/", "\r", "\n">>,
     <<"a", " ", "\t", "b", "}", "c">>,
     <<"a", "\t", " ", "\r", "\n">>}

Inputs == SeqsUpTo(InputChars, MaxInput) \cup TestInputs

\* the parsers ignore_many0 and ignore_many1 are called with
InnerParsers ==
    {"alt((multispace1, comment))", "unquoted_char_nonspace",
     "alt((ignore(unquoted_char_nonspace), ignore(terminated(space1, unquoted_char_nonspace))))",
     "space0", "opt(comment)", "cut(char('a'))", "fail"}

\* the inputs the loops are run on
LoopInputs == SeqsUpTo({"a", " ", "/", "\n"}, MaxInput - 1) \cup TestInputs

InitVdf ==
    /\ SigIdle
    /\ OffIdle
    /\ AnimIdle
    /\ bufLen = 0
    /\ \/ call \in [fn : {"any_key", "any_value"}, input : Inputs]
       \/ call \in [fn : {"ignore_many0", "ignore_many1"}, f : InnerParsers,
                    input : LoopInputs, given : LoopInputs, trips : {0}]
          /\ call.given = call.input
    /\ returned = NotCalled

AnyKey ==
    /\ call.fn = "any_key"
    /\ returned = NotCalled
    /\ returned' = any_key(call.input)
    /\ UNCHANGED <<sigVars, offVars, animVars, call>>

AnyValue ==
    /\ call.fn = "any_value"
    /\ returned = NotCalled
    /\ returned' = any_value(call.input)
    /\ UNCHANGED <<sigVars, offVars, animVars, call>>

\* the outcome of a trip is recorded: the value returned, or the next input
Tripped(trip) ==
    /\ returned' = IF trip.return THEN trip.result ELSE NotCalled
    /\ call' = [call EXCEPT !.trips = @ + 1,
                            !.input = IF trip.return THEN @ ELSE trip.input]

\* ignore_many0: one trip of its loop
Many0Trip ==
    /\ call.fn = "ignore_many0"
    /\ returned = NotCalled
    /\ call.trips <= Len(call.given) + 2
    /\ Tripped(LoopTrip(call.f, call.input, "Many0"))
    /\ UNCHANGED <<sigVars, offVars, animVars>>

\* ignore_many1: its first call of f
Many1First ==
    /\ call.fn = "ignore_many1"
    /\ returned = NotCalled
    /\ call.trips = 0
    /\ Tripped(FirstTrip(call.f, call.input))
    /\ UNCHANGED <<sigVars, offVars, animVars>>

\* ignore_many1: one trip of its loop
Many1Trip ==
    /\ call.fn = "ignore_many1"
    /\ returned = NotCalled
    /\ call.trips \in 1..(Len(call.given) + 2)
    /\ Tripped(LoopTrip(call.f, call.input, "Many1"))
    /\ UNCHANGED <<sigVars, offVars, animVars>>

NextVdf ==
    \/ AnyKey
    \/ AnyValue
    \/ Many0Trip
    \/ Many1First
    \/ Many1Trip

SpecVdf == InitVdf /\ [][NextVdf]_vars

\* the loops are run on: a trip that can be taken is taken
SpecVdfFair ==
    SpecVdf /\ WF_vars(Many0Trip) /\ WF_vars(Many1First) /\ WF_vars(Many1Trip)

(***************************************************************************)
(* SpecLoad: Vmf::load on a drawn map, with drawn settings and callback    *)
(*                                                                         *)
(* call holds the run: the map (call.vmf), the settings, the kind of the   *)
(* callback f, the place of the calling thread (call.main), of f (call.f)  *)
(* and of the spawned task (call.phase, call.running), the paths sent to   *)
(* the importer (call.jobs), the items of the running phase that are built *)
(* (call.built), the handler calls made (call.handled), whether the        *)
(* importer is held, and the number of copies of the asset handler the     *)
(* run holds (call.handlers).  returned is Ok once load has returned.  A   *)
(* path is the sequence of its components.  The materials of a prop's      *)
(* model go to the material thread over material_job_sender and are not    *)
(* recorded.                                                               *)
(***************************************************************************)

\* GeometrySetting::brushes, GeometrySetting::overlays: is it Some(..)
GeometrySetting_brushes(geometry) == geometry \in {"Brushes", "BrushesAndOverlays"}
GeometrySetting_overlays(geometry) == geometry = "BrushesAndOverlays"

\* PathBuf::from("materials") with a material pushed
MaterialPath(material) == <<"materials">> \o material

\* the paths of the sides of a list of solids, in order
RECURSIVE SidePaths(_)
SidePaths(solids) ==
    IF solids = <<>> THEN <<>>
    ELSE [s \in 1..Len(Head(solids)) |-> MaterialPath(Head(solids)[s])]
         \o SidePaths(Tail(solids))

\* the paths of the sides of the solids of a list of entities, in order
RECURSIVE EntitySidePaths(_)
EntitySidePaths(entities) ==
    IF entities = <<>> THEN <<>>
    ELSE SidePaths(Head(entities).solids) \o EntitySidePaths(Tail(entities))

\* send_material_jobs, `if import_materials`: the overlays' materials are
\* submitted after `sent`, up to one that does not parse, which ends in
\* todo!()
RECURSIVE OverlayJobs(_, _)
OverlayJobs(entities, sent) ==
    IF entities = <<>> THEN [jobs |-> sent, panicked |-> FALSE]
    ELSE IF Head(entities).kind # "overlay" THEN OverlayJobs(Tail(entities), sent)
    ELSE IF ~Head(entities).material.some THEN [jobs |-> sent, panicked |-> TRUE]
    ELSE OverlayJobs(Tail(entities), Append(sent, Head(entities).material.v))

\* Vmf::send_material_jobs: the paths submitted, in order, and whether it
\* panicked
send_material_jobs(vmf, import_materials) ==
    IF import_materials
    THEN OverlayJobs(vmf.entities,
                     SidePaths(vmf.world) \o EntitySidePaths(vmf.entities))
    ELSE [jobs |-> SidePaths(vmf.world) \o EntitySidePaths(vmf.entities),
          panicked |-> FALSE]

\* The phases with the overlays in front of the brushes
PhasesOverlaysFirst == <<"props", "entities", "overlays", "brushes">>

\* the phases of the spawned task, in the order of its statements
Phases == <<"props", "entities", "brushes", "overlays">>

\* the `if` in front of a phase
PhaseEnabled(phase, settings) ==
    CASE phase = "props" -> settings.import_props
      [] phase = "entities" -> settings.import_entities
      [] phase = "brushes" -> GeometrySetting_brushes(settings.geometry)
      [] phase = "overlays" -> GeometrySetting_overlays(settings.geometry)

\* the items the parallel iterator of a phase yields: load_props,
\* load_other_entities, load_brushes (0 is the world), load_overlays
PhaseItems(phase, vmf) ==
    CASE phase = "props" ->
            {<<phase, e>> : e \in {e \in DOMAIN vmf.entities :
                vmf.entities[e].solids = <<>> /\ vmf.entities[e].kind = "prop"}}
      [] phase = "entities" ->
            {<<phase, e>> : e \in {e \in DOMAIN vmf.entities :
                /\ vmf.entities[e].solids = <<>>
                /\ vmf.entities[e].kind \notin {"overlay", "prop"}}}
      [] phase = "brushes" ->
            {<<phase, 0>>} \cup
            {<<phase, e>> : e \in {e \in DOMAIN vmf.entities :
                vmf.entities[e].solids # <<>>}}
      [] phase = "overlays" ->
            {<<phase, e>> : e \in {e \in DOMAIN vmf.entities :
                vmf.entities[e].kind = "overlay"}}

\* the copies of the asset handler a phase holds while it runs: the one of
\* for_each_with, and for the props the one of map_with
PhaseHandlers(phase) == IF phase = "props" THEN 2 ELSE 1

\* the items of a phase that are built before they are handled: a prop is
\* loaded, a brush and an overlay are built, an entity is only typed
IsBuilt(phase) == phase # "entities"

\* the maps drawn: a solid is the sequence of the materials of its sides,
\* an entity has a kind, solids, and, an overlay, a material that parses or
\* does not
Entity(kind, solids, material) == [kind |-> kind, solids |-> solids, material |-> material]

VmfSamples ==
    {[world |-> <<<<<<"brick", "wall">>, <<"tools", "nodraw">>>>>>,
      entities |-> <<Entity("prop", <<>>, None),
                     Entity("other", <<>>, None),
                     Entity("other", <<<<<<"glass">>>>>>, None),
                     Entity("overlay", <<>>, Some(<<"decals", "stain">>))>>],
     [world |-> <<>>,
      entities |-> <<Entity("prop", <<>>, None),
                     Entity("prop", <<>>, None),
                     Entity("overlay", <<>>, Some(<<"materials", "arrow">>)),
                     Entity("overlay", <<>>, Some(<<"arrow">>))>>],
     [world |-> <<>>, entities |-> <<>>],
     [world |-> <<<<<<"brick", "wall">>>>>>,
      entities |-> <<Entity("overlay", <<>>, None)>>],
     [world |-> <<<<<<"metal">>>>>>,
      entities |-> <<Entity("prop", <<<<<<"wood">>>>>>, None),
                     Entity("overlay", <<>>, Some(<<"arrow">>)),
                     Entity("other", <<>>, None),
                     Entity("other", <<>>, None)>>]}

SettingsSamples ==
    [geometry : {"Nothing", "Brushes", "BrushesAndOverlays"},
     import_materials : BOOLEAN, import_props : BOOLEAN, import_entities : BOOLEAN]

\* the callback: one that returns when it likes, and one that waits until
\* every copy of the asset handler is dropped
CallbackKinds == {"returns", "waits"}

InitLoad ==
    /\ SigIdle
    /\ OffIdle
    /\ AnimIdle
    /\ bufLen = 0
    /\ \E vmf \in VmfSamples, settings \in SettingsSamples, callback \in CallbackKinds :
        call = [fn |-> "Vmf::load", vmf |-> vmf, settings |-> settings,
                callback |-> callback, main |-> "send_material_jobs",
                f |-> "not called", phase |-> 0, running |-> FALSE,
                jobs |-> <<>>, built |-> {}, handled |-> {},
                importer |-> "held", handlers |-> 1]
    /\ returned = NotCalled

LoadStep(main) ==
    /\ call.fn = "Vmf::load"
    /\ call.main = main
    /\ UNCHANGED <<sigVars, offVars, animVars>>

\* self.send_material_jobs(&importer, settings.import_materials); a panic
\* unwinds load and drops the importer
SendMaterialJobs ==
    /\ LoadStep("send_material_jobs")
    /\ LET sent == send_material_jobs(call.vmf, call.settings.import_materials)
       IN  IF ~sent.panicked
           THEN /\ call' = [call EXCEPT !.jobs = sent.jobs, !.main = "build_thread_pool"]
                /\ returned' = returned
           ELSE /\ call' = [call EXCEPT !.jobs = sent.jobs, !.main = "panicked",
                                        !.importer = "dropped", !.handlers = 0]
                /\ returned' = Panic("not yet implemented: handle err")

\* let pool = build_thread_pool();
BuildThreadPool ==
    /\ LoadStep("build_thread_pool")
    /\ call' = [call EXCEPT !.main = "spawn"]
    /\ returned' = returned

\* s.spawn(..): the task may run from now on
Spawn ==
    /\ LoadStep("spawn")
    /\ call' = [call EXCEPT !.main = "f", !.phase = 1]
    /\ returned' = returned

\* f() is called, on the calling thread
CallF ==
    /\ LoadStep("f")
    /\ call.f = "not called"
    /\ call' = [call EXCEPT !.f = "running"]
    /\ returned' = returned

\* f returns; one that waits does so when no copy of the handler is left
FReturns ==
    /\ LoadStep("f")
    /\ call.f = "running"
    /\ call.callback = "waits" => call.handlers = 0
    /\ call' = [call EXCEPT !.f = "returned", !.main = "scope end"]
    /\ returned' = returned

\* the task is at the `if` of a phase
AtPhase == call.phase \in DOMAIN Phases /\ ~call.running

\* the `if` in front of a phase is false
SkipPhase ==
    /\ call.fn = "Vmf::load"
    /\ AtPhase
    /\ ~PhaseEnabled(Phases[call.phase], call.settings)
    /\ call' = [call EXCEPT !.phase = @ + 1]
    /\ UNCHANGED <<sigVars, offVars, animVars, returned>>

\* the parallel iterator of a phase is made and for_each_with starts, with
\* its copies of the handler
BeginPhase ==
    /\ call.fn = "Vmf::load"
    /\ AtPhase
    /\ PhaseEnabled(Phases[call.phase], call.settings)
    /\ call' = [call EXCEPT !.running = TRUE, !.built = {},
                            !.handlers = @ + PhaseHandlers(Phases[call.phase])]
    /\ UNCHANGED <<sigVars, offVars, animVars, returned>>

\* the map of the iterator on one item: its prop is loaded, its brush or
\* overlay is built
Build ==
    /\ call.fn = "Vmf::load"
    /\ call.running
    /\ IsBuilt(Phases[call.phase])
    /\ \E item \in PhaseItems(Phases[call.phase], call.vmf) \ call.built :
        call' = [call EXCEPT !.built = @ \cup {item}]
    /\ UNCHANGED <<sigVars, offVars, animVars, returned>>

\* the closure of for_each_with on one item: the handler is called
Handle ==
    /\ call.fn = "Vmf::load"
    /\ call.running
    /\ \E item \in PhaseItems(Phases[call.phase], call.vmf) \ call.handled :
        /\ IsBuilt(Phases[call.phase]) => item \in call.built
        /\ call' = [call EXCEPT !.handled = @ \cup {item}]
    /\ UNCHANGED <<sigVars, offVars, animVars, returned>>

\* for_each_with returns: every item is handled, the copies of the handler
\* the iterator held are dropped
EndPhase ==
    /\ call.fn = "Vmf::load"
    /\ call.running
    /\ PhaseItems(Phases[call.phase], call.vmf) \subseteq call.handled
    /\ call' = [call EXCEPT !.running = FALSE, !.phase = @ + 1,
                            !.handlers = @ - PhaseHandlers(Phases[call.phase])]
    /\ UNCHANGED <<sigVars, offVars, animVars, returned>>

\* A drop of the importer in front of the overlays
DropImporterEarly ==
    /\ call.fn = "Vmf::load"
    /\ call.phase >= Len(Phases)
    /\ ~call.running
    /\ call.importer = "held"
    /\ call' = [call EXCEPT !.phase = Len(Phases) + 2, !.importer = "dropped",
                            !.handlers = @ - 1]
    /\ UNCHANGED <<sigVars, offVars, animVars, returned>>

\* drop(importer); the task ends
DropImporter ==
    /\ call.fn = "Vmf::load"
    /\ call.phase = Len(Phases) + 1
    /\ call' = [call EXCEPT !.phase = @ + 1, !.importer = "dropped",
                            !.handlers = @ - 1]
    /\ UNCHANGED <<sigVars, offVars, animVars, returned>>

\* in_place_scope returns when f has returned and the task has ended; load
\* returns
ScopeEnds ==
    /\ LoadStep("scope end")
    /\ call.phase = Len(Phases) + 2
    /\ call' = [call EXCEPT !.main = "returned"]
    /\ returned' = Ok(<<>>)

\* the steps of the calling thread, and those of the spawned task
MainNext ==
    \/ SendMaterialJobs
    \/ BuildThreadPool
    \/ Spawn
    \/ CallF
    \/ ScopeEnds

TaskNext ==
    \/ SkipPhase
    \/ BeginPhase
    \/ Build
    \/ Handle
    \/ EndPhase
    \/ DropImporter

NextLoad ==
    \/ MainNext
    \/ FReturns
    \/ TaskNext

SpecLoad == InitLoad /\ [][NextLoad]_vars

\* the calling thread and the threads of the pool (there is at least one)
\* run on, and a callback that waits returns once it has nothing to wait
\* for; one that returns when it likes may never do so
SpecLoadFair ==
    /\ SpecLoad
    /\ WF_vars(MainNext)
    /\ WF_vars(TaskNext)
    /\ WF_vars(FReturns /\ call.callback = "waits")

(***************************************************************************)
(* Claims                                                                  *)
(***************************************************************************)

\* C1 (as claimed): a buffer of at least 4 bytes is accepted iff its first four
\* bytes are the magic, every other one is refused with InvalidSignature whose
\* signature field holds exactly those four bytes, and a shorter buffer is a
\* corruption error.
C1_SignatureEchoed ==
    sigResult # NotCalled =>
        /\ Len(bytes) < 4 => sigResult.kind = "Corrupted"
        /\ Len(bytes) >= 4 =>
            /\ sigResult.kind = "Ok" <=> SubSeq(bytes, 1, 4) = MAGIC
            /\ sigResult.kind # "Ok" =>
                /\ sigResult.kind = "InvalidSignature"
                /\ sigResult.signature = SubSeq(bytes, 1, 4)

\* C2 (as claimed): AnimationDescRef::data returns a value and never panics,
\* whatever section_offset, section_frame_count, frame_count and anim_block
\* the descriptor holds.
C2_DataNeverPanics ==
    \A k \in DOMAIN results : results[k].kind # "Panic"

\* the accessors that read a name, and those that resolve a child table
NameAccessors ==
    {"BoneRef::name", "TextureRef::name", "BodyPartRef::name",
     "AnimationDescRef::name"}
TableAccessors ==
    {"BodyPartRef::models", "ModelRef::meshes", "AnimationDescRef::movements"}

\* the first block of the legacy list the decoder is called on
FirstBlock == AnimationAt(buffer, sectionRef.anim_offset)

\* the per-axis curve offsets the first block holds after its constants
CurveOffsets ==
    {I16At(buffer, sectionRef.anim_offset + SizeOfAnimation
                   + LegacyConstantsLen(FirstBlock.flags) + 2 * n) :
        n \in 0..(LegacyOffsetsLen(FirstBlock.flags) \div 2 - 1)}

\* C3 (as claimed): an accessor called on a record whose signed offset field
\* is negative returns a corruption error (header_2_offset, the extension
\* header's name_offset, the name offsets, model_offset, mesh_offset and
\* movement_offset), and so does the legacy decoder on a block whose
\* next_offset or one of whose per-axis curve offsets is negative.
C3_NegativeOffsetIsCorruption ==
    /\ (/\ resolved.accessor \in
                {"Mdl::header", "HeaderRef::name"} \cup NameAccessors \cup TableAccessors
        /\ view.field < 0)
            => resolved.result.kind = "Corrupted"
    /\ (/\ decoded # NotCalled
        /\ ~sectionRef.frame_animation
        /\ FirstBlock.bone_index < Len(boneTable)
        /\ \/ FirstBlock.next_offset < 0
           \/ \E o \in CurveOffsets : o < 0)
            => decoded.kind = "Corrupted"

\* C4 (as claimed): a child found through a nonzero offset field starts at
\* (position of the record holding the field) + (field), nothing else added;
\* the extension header's name at header_2_offset + name_offset.
C4_ChildAtRecordPlusField ==
    (/\ resolved.accessor \in {"HeaderRef::name"} \cup NameAccessors \cup TableAccessors
     /\ view.field # 0
     /\ resolved.result.kind = "Ok"
     /\ resolved.accessor = "HeaderRef::name" => resolved.result.value.from = "header_2")
        => resolved.result.value.at = view.offset + view.field

\* the section table of descriptor d applies: it is asked for and its
\* records lie in the buffer
TableApplies(d) ==
    Bind(animation_sections(d, bufLen, buffer, overflowChecks), LAMBDA s :
        s.kind = "Ok" /\ s.value.some)

\* the number of records of d's table (when it applies) that lie in the file
InFileCount(d) ==
    Bind(animation_sections(d, bufLen, buffer, overflowChecks).value.v.animation_sections,
         LAMBDA records : Cardinality({i \in DOMAIN records : InFile(records[i])}))

\* what data() returns for descriptor k when it is the only one asked
DataAlone(k) == data(descs[k], bufLen, buffer, boneTable, overflowChecks)

\* C5 (as claimed): when the section table applies and at least one of its
\* sections lies in the file, data() returns unsupported "animation sections"
\* and no data; the result of data() on another descriptor is what it is
\* without the failing one.
C5_SectionsUnsupportedAsClaimed ==
    \A k \in DOMAIN results :
        results[k] # NotCalled =>
            /\ (TableApplies(descs[k]) /\ InFileCount(descs[k]) >= 1)
                    => results[k] = Unsupported("animation sections")
            /\ results[k] = DataAlone(k)

\* C5 (amended): when the section table applies, frame_count is not negative
\* and at least one of its sections lies in the file, data() returns
\* unsupported "animation sections" and no data (with a negative frame_count
\* it returns the corruption error "animation frame count is negative"); the
\* result of data() on another descriptor is what it is without the failing
\* one.
C5_SectionsUnsupported ==
    \A k \in DOMAIN results :
        results[k] # NotCalled =>
            /\ (TableApplies(descs[k]) /\ InFileCount(descs[k]) >= 1)
                    => IF descs[k].frame_count >= 0
                       THEN results[k] = Unsupported("animation sections")
                       ELSE results[k] = Corrupted("animation frame count is negative")
            /\ results[k] = DataAlone(k)

\* C5 witness: data() has failed on the descriptor with a table of in-file
\* sections, and has then decoded the other descriptor
C5_Witness ==
    /\ results[1] = Unsupported("animation sections")
    /\ TableApplies(descs[1])
    /\ InFileCount(descs[1]) >= 2
    /\ results[2] # NotCalled
    /\ results[2].kind = "Ok"
    /\ results[2].value.some

\* C6 (as claimed): data() returns unsupported "animation sections" only when
\* sections in the file remain after the filter; a table whose sections are
\* all external, or of which one in-file section remains, does not fail so.
C6_NoFailureWithoutInFileSections ==
    \A k \in DOMAIN results :
        (results[k] # NotCalled /\ TableApplies(descs[k]) /\ InFileCount(descs[k]) <= 1)
            => results[k] # Unsupported("animation sections")

\* the one section of a descriptor without a table
WholeSection(d) ==
    [anim_offset |-> d.offset + d.anim_offset, anim_block |-> 0,
     frame_count |-> d.frame_count, last_section |-> TRUE]

\* what data() returns when it decodes section
DecodedSection(d, section) ==
    Then(AnimationSectionRef_data(section, d.frame_animation, buffer, bufLen, boneTable),
         LAMBDA map : Ok(Some(map.value)))

\* data() has decoded the one section of d: the section is at the descriptor
\* position + anim_offset, has frame_count frames and is final, the result
\* is that section's data, and the per-frame rotation of bone 0 in the
\* bitflag region has frame_count entries
DecodesWholeSection(d, result) ==
    /\ animation_section(d) = Ok(Some(WholeSection(d)))
    /\ result = DecodedSection(d, WholeSection(d))
    /\ (d.frame_animation /\ result.kind = "Ok")
            => Len(result.value.v[0].rotation.frames) = d.frame_count

\* C7 (as claimed): with section_offset = 0 or a negative section_frame_count
\* the descriptor is one final section at its position + anim_offset with
\* frame_count frames, and data() decodes it.
C7_SingleSectionAsClaimed ==
    \A k \in DOMAIN results :
        (/\ results[k] # NotCalled
         /\ descs[k].section_offset = 0 \/ descs[k].section_frame_count < 0)
            => DecodesWholeSection(descs[k], results[k])

\* C7 (amended): with section_offset = 0 or a negative section_frame_count,
\* a descriptor with anim_block = 0 and frame_count >= 0 is one final section
\* at its position + anim_offset with frame_count frames, and data() decodes
\* it; with anim_block # 0 data() returns Ok(None), and with anim_block = 0
\* and a negative frame_count the corruption error.
C7_SingleSection ==
    \A k \in DOMAIN results :
        (/\ results[k] # NotCalled
         /\ descs[k].section_offset = 0 \/ descs[k].section_frame_count < 0)
            => IF descs[k].anim_block # 0 THEN results[k] = Ok(None)
               ELSE IF descs[k].frame_count < 0
               THEN results[k] = Corrupted("animation frame count is negative")
               ELSE DecodesWholeSection(descs[k], results[k])

\* C7 witness: data() has decoded the two frames of a bitflag descriptor
\* whose section_offset is set and whose section_frame_count is negative
C7_Witness ==
    /\ descs[1].section_offset # 0
    /\ descs[1].section_frame_count < 0
    /\ descs[1].frame_animation
    /\ descs[1].frame_count = 2
    /\ results[1].kind = "Ok"
    /\ results[1].value.some
    /\ Len(results[1].value.v[0].rotation.frames) = 2

\* the section count frame_count / section_frame_count + 2 of the descriptor
\* the iterator was made for
SectionCount == descs[1].frame_count \div descs[1].section_frame_count + 2

\* C8: the iterator over a table that applies (section_frame_count > 0,
\* frame_count >= 0) holds frame_count / section_frame_count + 2 records; the
\* section of unfiltered index i has section_frame_count frames if
\* i < count - 2 and frame_count - (count - 2) * section_frame_count
\* otherwise; i counts the sections the filter drops; no subtraction
\* underflows (the closure never panics, no frame count is negative).
C8_SectionFrameCounts ==
    iter.status \in {"open", "exhausted", "panicked"} =>
        /\ iter.status # "panicked"
        /\ descs[1].section_frame_count > 0
        /\ descs[1].frame_count >= 0
        /\ iter.it.v.sections_len = SectionCount
        /\ Len(iter.it.v.sections.animation_sections) = SectionCount
        /\ \A n \in DOMAIN iter.yielded :
            /\ iter.yielded[n].section.frame_count =
                    IF iter.yielded[n].i < SectionCount - 2
                    THEN descs[1].section_frame_count
                    ELSE descs[1].frame_count
                            - (SectionCount - 2) * descs[1].section_frame_count
            /\ iter.yielded[n].section.frame_count >= 0
            /\ iter.yielded[n].section.anim_block = 0
            /\ iter.yielded[n].section.anim_offset =
                    descs[1].offset + descs[1].anim_offset
                    + 16 * iter.yielded[n].i
            /\ I32At(buffer, descs[1].offset + descs[1].section_offset
                              + SizeOfAnimationSection * iter.yielded[n].i) = 0

\* C8 witness: of a table of five records whose even indices are external,
\* the iterator has yielded the section of index 1 with section_frame_count
\* frames and the section of index 3 with the remaining frame
C8_Witness ==
    /\ buffer = SectionsBuffer("mixed")
    /\ descs[1].frame_count = 3
    /\ descs[1].section_frame_count = 1
    /\ Len(iter.yielded) = 2
    /\ iter.yielded[1].i = 1
    /\ iter.yielded[1].section.frame_count = 1
    /\ iter.yielded[2].i = 3
    /\ iter.yielded[2].section.frame_count = 0

\* the FrameAnimation fields and the flag byte of bone b (from 0) of the
\* bitflag section the decoder is called on
ConstantsOffsetField == I32At(buffer, sectionRef.anim_offset)
FrameOffsetField == I32At(buffer, sectionRef.anim_offset + 4)
FlagByte(b) == U8At(buffer, sectionRef.anim_offset + SizeOfFrameAnimation + b)

\* C9 (as claimed): after a successful decode of a bitflag section with
\* frame_offset # 0 every bone with a per-frame rotation flag holds exactly N
\* rotations and every bone with a per-frame position flag exactly N
\* positions (N = frame_count for a final section, frame_count + 1
\* otherwise), whatever the flag byte; in the legacy decoder every per-frame
\* sequence has exactly frame_count entries.
C9_FrameSequenceLengths ==
    decoded.kind = "Ok" =>
        IF sectionRef.frame_animation THEN
            FrameOffsetField # 0 =>
                \A b \in DOMAIN decoded.value :
                    /\ HasFrameRotation(FlagByte(b)) =>
                        /\ decoded.value[b].rotation.tag = "Animated"
                        /\ Len(decoded.value[b].rotation.frames) =
                            IF sectionRef.last_section THEN sectionRef.frame_count
                            ELSE sectionRef.frame_count + 1
                    /\ HasFramePosition(FlagByte(b)) =>
                        /\ decoded.value[b].position.tag = "Animated"
                        /\ Len(decoded.value[b].position.frames) =
                            IF sectionRef.last_section THEN sectionRef.frame_count
                            ELSE sectionRef.frame_count + 1
        ELSE
            \A b \in DOMAIN decoded.value :
                /\ decoded.value[b].rotation.tag = "AnimatedEuler"
                    => Len(decoded.value[b].rotation.frames) = sectionRef.frame_count
                /\ decoded.value[b].position.tag = "Animated"
                    => Len(decoded.value[b].position.frames) = sectionRef.frame_count

\* C10 (as claimed): in both decoders the wide constant rotation takes
\* precedence: with CONST_ROT2 (RAWROT2 in the legacy decoder) set, the
\* constant rotation is the wide quaternion at the start of the bone's
\* constants, the 3x16 rotation is neither read nor skipped even if RAWROT
\* is set, and a constant position is read right after the wide quaternion.
C10_WideRotationPrecedence ==
    decoded.kind = "Ok" =>
        IF sectionRef.frame_animation THEN
            (ConstantsOffsetField # 0 /\ Contains(FlagByte(0), BoneFlags_CONST_ROT2)) =>
                /\ (FrameOffsetField = 0 \/ ~HasFrameRotation(FlagByte(0))) =>
                    decoded.value[0].rotation =
                        Constant([codec |-> "from_bytes_48",
                                  at |-> sectionRef.anim_offset + ConstantsOffsetField,
                                  turns |-> 1])
                /\ (/\ Contains(FlagByte(0), BoneFlags_RAWPOS)
                    /\ FrameOffsetField = 0 \/ ~HasFramePosition(FlagByte(0))) =>
                    /\ decoded.value[0].position.tag = "Constant"
                    /\ decoded.value[0].position.value.z.of =
                        <<"f16_to_f64",
                          sectionRef.anim_offset + ConstantsOffsetField + 6 + 4>>
        ELSE
            (/\ FirstBlock.bone_index < Len(boneTable)
             /\ Contains(FirstBlock.flags, AnimationFlags_RAWROT2)
             /\ ~Contains(FirstBlock.flags, AnimationFlags_ANIMROT)
             /\ ~Contains(FirstBlock.flags, AnimationFlags_ANIMPOS)
             /\ FirstBlock.next_offset = 0 \/ FirstBlock.bone_index = 0) =>
                /\ decoded.value[FirstBlock.bone_index].rotation =
                        Constant([codec |-> "from_bytes_64",
                                  at |-> sectionRef.anim_offset + SizeOfAnimation,
                                  turns |-> IF FirstBlock.bone_index = 0 THEN 1 ELSE 0])
                /\ Contains(FirstBlock.flags, AnimationFlags_RAWPOS) =>
                    /\ decoded.value[FirstBlock.bone_index].position.tag = "Constant"
                    /\ decoded.value[FirstBlock.bone_index].position.value.z.of =
                        <<"f16_to_f64", sectionRef.anim_offset + SizeOfAnimation + 8 + 4>>

\* the run of a curve that frame k falls in, and k's index in that run;
\* None when the runs end before frame k
RECURSIVE RunOfFrame(_, _)
RunOfFrame(runs, k) ==
    IF runs = <<>> THEN None
    ELSE IF k < runs[1].total THEN Some([run |-> runs[1], j |-> k])
    ELSE RunOfFrame(Tail(runs), k - runs[1].total)

\* the two runs of the documented example
ExampleCurve ==
    <<[total |-> 3, valid |-> 2, values |-> <<5, 9>>],
      [total |-> 2, valid |-> 0, values |-> <<>>]>>

\* C11 (as claimed): from the curve [(total 3, valid 2, values 5 9), (total 2,
\* valid 0)] the raw deltas of frames 0..4 are 5, 9, 9, 0, 0; every frame
\* that falls in a run with valid = 0 has delta 0.
C11_EmptyRunIsZero ==
    returned # NotCalled =>
        /\ (call.runs = ExampleCurve /\ call.frame_count = 5 /\ call.scale = 1)
                => returned = Ok(<<5, 9, 9, 0, 0>>[call.frame + 1])
        /\ (/\ RunOfFrame(call.runs, call.frame).some
            /\ RunOfFrame(call.runs, call.frame).v.run.valid = 0
            /\ \A r \in DOMAIN call.runs : call.runs[r].valid <= call.runs[r].total)
                => returned = Ok(0)

\* C12: in a curve whose runs all have valid >= 1, the delta of frame k is
\* that of the run k falls in, runs consumed in order, each spanning total
\* frames: values[j] for the in-run index j < valid, the last explicit value
\* values[valid - 1] for valid <= j < total (times scale); explicit values
\* are never taken for headers.
C12_RunLengthFetch ==
    (/\ returned # NotCalled
     /\ \A r \in DOMAIN call.runs : call.runs[r].valid >= 1
     /\ RunOfFrame(call.runs, call.frame).some)
        => returned =
            Ok(call.scale *
                (IF RunOfFrame(call.runs, call.frame).v.j
                        < RunOfFrame(call.runs, call.frame).v.run.valid
                 THEN RunOfFrame(call.runs, call.frame).v.run.values[
                        RunOfFrame(call.runs, call.frame).v.j + 1]
                 ELSE RunOfFrame(call.runs, call.frame).v.run.values[
                        RunOfFrame(call.runs, call.frame).v.run.valid]))

\* C12 witness: the frame lies in the second run, after a first run whose
\* value's bytes look like a header, and past the second run's explicit
\* values, so the fetch holds the last one
C12_Witness ==
    /\ returned # NotCalled
    /\ Len(call.runs) = 2
    /\ call.runs[1].values = <<513>>
    /\ call.runs[2] = [total |-> 3, valid |-> 1, values |-> <<11>>]
    /\ call.frame = 3
    /\ call.scale = 3
    /\ returned = Ok(33)

\* the block the iterator stands on is one the buffer holds
OnBlock(it) == parse(bufLen, it.offset, SizeOfAnimation, 2)

\* the item of a call that yields the block at offset
YieldsBlock(item, offset) ==
    /\ item.some
    /\ item.v.kind = "Ok"
    /\ item.v.value.offset = offset
    /\ item.v.value.animation = AnimationAt(buffer, offset)

QuaternionCorrections(q) == q.turns
EulerCorrections(v) == v.quarter
PositionCorrections(v) ==
    CASE ~v.x.neg /\ ~v.y.neg -> 0
      [] ~v.x.neg /\ v.y.neg -> 1
      [] v.x.neg /\ v.y.neg -> 2
      [] OTHER -> 3

\* every sample of the bone's data shows n root corrections
CorrectedTimes(bone_data, n) ==
    /\ bone_data.rotation.tag = "Constant" =>
            QuaternionCorrections(bone_data.rotation.value) = n
    /\ bone_data.rotation.tag = "Animated" =>
            \A i \in DOMAIN bone_data.rotation.frames :
                QuaternionCorrections(bone_data.rotation.frames[i]) = n
    /\ bone_data.rotation.tag = "AnimatedEuler" =>
            \A i \in DOMAIN bone_data.rotation.frames :
                EulerCorrections(bone_data.rotation.frames[i]) = n
    /\ bone_data.position.tag = "Constant" =>
            PositionCorrections(bone_data.position.value) = n
    /\ bone_data.position.tag = "Animated" =>
            \A i \in DOMAIN bone_data.position.frames :
                PositionCorrections(bone_data.position.frames[i]) = n

\* C14: in the map AnimationSectionRef::data returns, on either decoder
\* path, every rotation and position sample of a bone whose parent index
\* is negative has had the root correction applied exactly once, and no
\* sample of a bone whose parent index is >= 0 has had it applied.
C14_RootCorrectedOnce ==
    decoded.kind = "Ok" =>
        \A bone_i \in DOMAIN decoded.value :
            CorrectedTimes(decoded.value[bone_i],
                           IF boneTable[bone_i + 1].parent_bone_index < 0 THEN 1 ELSE 0)

\* C14 witness: the per-frame decoder returned a root bone with animated
\* rotation and position and a child bone with animated rotation and a
\* constant position
C14_Witness ==
    /\ sectionRef.frame_animation
    /\ decoded.kind = "Ok"
    /\ decoded.value[0].rotation.tag = "Animated"
    /\ Len(decoded.value[0].rotation.frames) >= 2
    /\ decoded.value[0].position.tag = "Animated"
    /\ decoded.value[1].rotation.tag = "Animated"
    /\ decoded.value[1].position.tag = "Constant"

\* C15: data() never fails on the bone-table lookup of the root correction,
\* and every key of the map it returns is below the number of bones, on
\* either decoder path.
C15_KeysAreBoneIndexes ==
    /\ decoded.kind # "Panic"
    /\ decoded.kind = "Ok" => DOMAIN decoded.value \subseteq 0..(Len(boneTable) - 1)

\* C15 witness: the legacy decoder met a block whose bone index is the
\* number of bones and returned a map (the empty one)
C15_Witness ==
    /\ ~sectionRef.frame_animation
    /\ U8At(buffer, sectionRef.anim_offset) = Len(boneTable)
    /\ decoded.kind = "Ok"
    /\ decoded.value = <<>>

\* the map data() builds before the root correction, decoded anew
Uncorrected ==
    SectionMap(sectionRef, sectionRef.frame_animation, buffer, bufLen, boneTable).value

\* v is u with x and y swapped and the new y negated
Rotated(u, v) == v.x = u.y /\ v.y = Neg(u.x) /\ v.z = u.z

\* f applied four times to v
FourTimes(F(_), v) == F(F(F(F(v))))

\* C16: every position sample of a root bone in the returned map, the
\* constant one or a per-frame one, is the decoded sample (x, y, z) as
\* (y, -x, z); and the position correction applied four times to a sample
\* gives the sample back.
C16_PositionQuarterTurn ==
    decoded.kind = "Ok" =>
        \A bone_i \in DOMAIN decoded.value :
            LET after == decoded.value[bone_i].position
                before == Uncorrected[bone_i].position
            IN  boneTable[bone_i + 1].parent_bone_index < 0 =>
                /\ after.tag = before.tag
                /\ after.tag = "Constant" =>
                    /\ Rotated(before.value, after.value)
                    /\ FourTimes(Vector_apply_root_position_correction, before.value)
                            = before.value
                /\ after.tag = "Animated" =>
                    /\ DOMAIN after.frames = DOMAIN before.frames
                    /\ \A i \in DOMAIN after.frames :
                        /\ Rotated(before.frames[i], after.frames[i])
                        /\ FourTimes(Vector_apply_root_position_correction,
                                     before.frames[i]) = before.frames[i]

\* C16 witness: the legacy decoder returned a root bone with two or more
\* position frames whose x and y differ
C16_Witness ==
    /\ ~sectionRef.frame_animation
    /\ decoded.kind = "Ok"
    /\ 0 \in DOMAIN decoded.value
    /\ decoded.value[0].position.tag = "Animated"
    /\ Len(decoded.value[0].position.frames) >= 2
    /\ \A i \in DOMAIN decoded.value[0].position.frames :
            decoded.value[0].position.frames[i].x.of
                # decoded.value[0].position.frames[i].y.of

\* the signature and version checks of the three files pass
ChecksPass(model) ==
    /\ model.mdl.len >= 8
    /\ SubSeq(model.mdl.head, 1, 4) = MAGIC
    /\ I32At(MdlBytes(model.mdl), 4) \in 44..49
    /\ model.vvd.check_signature.kind = "Ok"
    /\ model.vvd.check_version.kind = "Ok"
    /\ model.vtx.check_version.kind = "Ok"

\* the three headers can be read
HeadersRead(model) ==
    /\ header(model.mdl.len, model.mdl.header_2_offset).kind = "Ok"
    /\ model.vvd.header.kind = "Ok"
    /\ model.vtx.header.kind = "Ok"

\* the vvd and the vtx checksum both equal the mdl checksum
ChecksumsAgree(model) ==
    /\ HeadersRead(model)
    /\ model.vvd.header.value = HeaderRef_checksum(model.mdl)
    /\ model.vtx.header.value = HeaderRef_checksum(model.mdl)

\* C17: Model::verify returns a Verified value only if the signature and
\* version checks passed and the vvd and vtx checksums both equal the mdl
\* checksum; when the checks pass, the headers are read and both checksums
\* differ from the mdl checksum, it reports the vvd mismatch; and materials(),
\* a method of Verified, is only ever called for files whose checks passed
\* and whose checksums agree.
C17_VerifiedOnlyOnMatchingChecksums ==
    /\ (call.fn = "Model::verify" /\ returned # NotCalled) =>
        /\ returned.kind = "Ok" => ChecksPass(call.model) /\ ChecksumsAgree(call.model)
        /\ ( /\ ChecksPass(call.model)
             /\ HeadersRead(call.model)
             /\ call.model.vvd.header.value # HeaderRef_checksum(call.model.mdl)
             /\ call.model.vtx.header.value # HeaderRef_checksum(call.model.mdl) )
            => returned = ChecksumMismatch("Vvd")
    /\ call.fn = "Verified::materials" =>
        /\ ChecksPass(call.model)
        /\ ChecksumsAgree(call.model)
        /\ call.verified.vvd_header = call.verified.mdl_header
        /\ call.verified.vtx_header = call.verified.mdl_header

\* C17 witness: materials() was called on the Verified value of three files
\* that share a negative checksum
C17_Witness ==
    /\ call.fn = "Verified::materials"
    /\ call.verified = [mdl_header |-> 0 - 2, vvd_header |-> 0 - 2, vtx_header |-> 0 - 2]
    /\ call.model.mdl.len = MdlLen

\* the tables of the header are in the file and hold directories and names
\* that can be read
TablesRead(h) ==
    /\ h.texture_dir_offset = TexturePathsAt
    /\ h.texture_dir_count = Len(h.path_offsets)
    /\ \A i \in DOMAIN h.path_offsets :
            h.path_offsets[i] \in {0, DirModelsAt, DirSharedAt}
    /\ \A i \in DOMAIN h.name_offsets :
            TexturesAt + (i - 1) * SizeOfTexture + h.name_offsets[i]
                \in {NameWoodAt, NameMetalAt}

\* the name of the i-th texture
TextureName(h, i) == StringAt(TexturesAt + (i - 1) * SizeOfTexture + h.name_offsets[i])

\* materials/<dir>/<name>.vmt for the table entry at offset w; the entry 0
\* is no directory
CandidateOf(w, name) ==
    [components |-> IF w = 0 THEN <<"materials", name>>
                    ELSE <<"materials", StringAt(w), name>>,
     extension |-> "vmt"]

\* what the search for a name comes to: the first directory, in table order,
\* whose candidate is not NotFound decides
Outcome(h, file_system, name) ==
    LET hits == {i \in DOMAIN h.path_offsets :
                    file_system[CandidateOf(h.path_offsets[i], name)] # "NotFound"}
    IN  IF hits = {}
        THEN Io([components |-> <<name>>, extension |-> "vmt"], "NotFound")
        ELSE LET first == CHOOSE i \in hits : \A j \in hits : i <= j
                 candidate == CandidateOf(h.path_offsets[first], name)
             IN  IF file_system[candidate] = "Ok" THEN Ok(candidate)
                 ELSE Io(candidate, file_system[candidate])

\* C18: when the tables can be read, materials() returns for every texture
\* the first candidate materials/<dir>/<name>.vmt, in table order, that
\* opens, an entry with offset 0 giving materials/<name>.vmt; a NotFound
\* candidate is passed over, any other I/O error is returned for its
\* candidate, and a name no directory holds gives the NotFound I/O error of
\* <name>.vmt; the error of the first texture that has one is the result.
C18_FirstDirectoryThatOpens ==
    (call.fn = "Verified::materials" /\ TablesRead(call.header)) =>
        LET h == call.header
            outcome == [i \in DOMAIN h.name_offsets |->
                            Outcome(h, call.file_system, TextureName(h, i))]
            failed == {i \in DOMAIN outcome : outcome[i].kind # "Ok"}
        IN  IF failed = {}
            THEN returned = Ok([i \in DOMAIN outcome |-> outcome[i].value])
            ELSE returned = outcome[CHOOSE i \in failed : \A j \in failed : i <= j]

\* C18 witness: wood is not in models/props, the first directory, and is
\* found without a prefix, the second entry, whose offset is 0
C18_Witness ==
    /\ call.fn = "Verified::materials"
    /\ TablesRead(call.header)
    /\ call.header.path_offsets = <<DirModelsAt, 0>>
    /\ Len(call.header.name_offsets) = 1
    /\ TextureName(call.header, 1) = "wood"
    /\ call.file_system[CandidateOf(DirModelsAt, "wood")] = "NotFound"
    /\ returned = Ok(<<[components |-> <<"materials", "wood">>, extension |-> "vmt"]>>)

QuaternionCodecs ==
    {"Quaternion::from_bytes_48", "Quaternion::from_bytes_64", "Quaternion::from_u16s"}

\* the component of q that was reconstructed
Reconstructed(q) ==
    CHOOSE c \in {q.x, q.y, q.z, q.w} : "nan" \in DOMAIN c

\* the 15-bit field of a 48-bit input that starts at byte i
Field15(b, i) == (b[i + 1] % 128) * 256 + b[i]

\* C19 (as claimed): every packed-quaternion codec returns, for every input,
\* a quaternion whose reconstructed component has a non-negative radicand
\* and is therefore not NaN (so the squared norm is 1); for the 48-bit form
\* the three 15-bit fields ra, rb, rc of every input satisfy
\* (ra - 16384)^2 + (rb - 16384)^2 + (rc - 16384)^2 <= 23168^2.
C19_QuaternionsNormalized ==
    (call.fn \in QuaternionCodecs /\ returned # NotCalled) =>
        /\ ~Reconstructed(returned.value).nan
        /\ call.fn = "Quaternion::from_bytes_48" =>
            (Field15(call.input, 1) - 16384) * (Field15(call.input, 1) - 16384)
            + (Field15(call.input, 3) - 16384) * (Field15(call.input, 3) - 16384)
            + (Field15(call.input, 5) - 16384) * (Field15(call.input, 5) - 16384)
                <= 23168 * 23168

\* 2^n for n >= 0
RECURSIVE Pow2(_)
Pow2(n) == IF n = 0 THEN 1 ELSE 2 * Pow2(n - 1)

\* v is the finite value sign * n / 2^k
IsDyadic(v, sign, n, k) ==
    /\ v.kind = "Finite"
    /\ v.sign = sign
    /\ k + v.exp >= 0
    /\ v.significand * Pow2(k + v.exp) = n

\* C20: f16_to_f64 decodes every 16-bit word to a finite value: exponent
\* field 31 with mantissa 0 gives 65504 with the sign of the sign bit,
\* exponent field 31 with a nonzero mantissa gives 0.0 whatever the sign
\* bit, and exponent field 0 with a nonzero mantissa gives
\* sign * (mantissa / 1024) / 16384.
C20_HalfFloatsAreFinite ==
    (call.fn = "f16_to_f64" /\ returned # NotCalled) =>
        LET mantissa == call.input % 1024
            exponent == (call.input \div 1024) % 32
            sign == IF call.input >= 32768 THEN 0 - 1 ELSE 1
            value == returned.value
        IN  /\ value.kind = "Finite"
            /\ (exponent = 31 /\ mantissa = 0) => IsDyadic(value, sign, 65504, 0)
            /\ (exponent = 31 /\ mantissa # 0) => IsDyadic(value, 1, 0, 0)
            /\ (exponent = 0 /\ mantissa # 0) => IsDyadic(value, sign, mantissa, 24)

\* C20 witness: the negative infinity of half floats was decoded, to -65504
C20_Witness ==
    /\ call.fn = "f16_to_f64"
    /\ call.input = 64512
    /\ returned = Ok([kind |-> "Finite", sign |-> 0 - 1, significand |-> 2047, exp |-> 5])


\* position p of i is white space
IsSpaceAt(i, p) == i[p] \in Multispace

\* position p of i lies in a // comment: two slashes at or before it on its line
InCommentAt(i, p) ==
    \E q \in 1..p :
        /\ q + 1 <= Len(i)
        /\ i[q] = "/"
        /\ i[q + 1] = "/"
        /\ \A r \in q..p : i[r] \notin {"\r", "\n"}

\* the number of leading characters of i that are white space or comment
SkipLen(i) ==
    CHOOSE k \in 0..Len(i) :
        /\ \A p \in 1..k : IsSpaceAt(i, p) \/ InCommentAt(i, p)
        /\ k = Len(i) \/ ~(IsSpaceAt(i, k + 1) \/ InCommentAt(i, k + 1))

\* position p of i holds a non-space token character: none of the stops, or a
\* slash that does not start a comment
KeyCharAt(i, p) ==
    \/ i[p] \notin UnquotedStops
    \/ i[p] = "/" /\ (p = Len(i) \/ i[p + 1] # "/")

\* the length of the longest run of positions from p on that all satisfy Q
RunFrom(i, p, Q(_, _)) ==
    CHOOSE m \in 0..(Len(i) - p + 1) :
        /\ \A r \in p..(p + m - 1) : Q(i, r)
        /\ p + m > Len(i) \/ ~Q(i, p + m)

\* the token of i starts with a quote that is closed
QuotedAt(i, k) ==
    /\ k < Len(i)
    /\ i[k + 1] = "\""
    /\ \E c \in (k + 2)..Len(i) : i[c] = "\""

\* the position of the closing quote of the token that opens at k + 1
ClosingAt(i, k) ==
    CHOOSE c \in (k + 2)..Len(i) :
        i[c] = "\"" /\ \A r \in (k + 2)..(c - 1) : i[r] # "\""

\* C21: any_key and any_value skip the leading white space and // comments
\* of their input and return the token that follows: of a quoted token the
\* text between its quotes, with the input after the closing quote left; of
\* an unquoted key the longest run of non-space token characters, with the
\* input after the run left; an unquoted value starts right after what was
\* skipped and what is left starts right after it.
C21_TokenAfterSkipped ==
    (call.fn \in {"any_key", "any_value"} /\ returned # NotCalled) =>
        LET i == call.input
            k == SkipLen(call.input)
            m == RunFrom(call.input, SkipLen(call.input) + 1, KeyCharAt)
        IN  IF QuotedAt(i, k)
            THEN returned = POk(From(i, ClosingAt(i, k) + 1),
                                SubSeq(i, k + 2, ClosingAt(i, k) - 1))
            ELSE IF call.fn = "any_key"
            THEN IF m > 0
                 THEN returned = POk(From(i, k + m + 1), SubSeq(i, k + 1, k + m))
                 ELSE returned.kind = "Error"
            ELSE returned.kind = "Ok" =>
                    /\ returned.out # <<>>
                    /\ returned.out = SubSeq(i, k + 1, k + Len(returned.out))
                    /\ returned.rest = From(i, k + Len(returned.out) + 1)

\* a key is returned from behind white space and a comment
C21_Witness ==
    /\ call.fn = "any_key"
    /\ returned # NotCalled
    /\ returned.kind = "Ok"
    /\ returned.out # <<>>
    /\ \E p \in 1..SkipLen(call.input) : IsSpaceAt(call.input, p)
    /\ \E p \in 1..SkipLen(call.input) : InCommentAt(call.input, p)
    /\ returned.rest # <<>>

\* position p of i holds a character of an unquoted value: a non-space token
\* character, a space or a tab
ValueCharAt(i, p) == KeyCharAt(i, p) \/ i[p] \in Spaces

\* v holds two slashes in a row
HasComment(v) == \E p \in 1..(Len(v) - 1) : v[p] = "/" /\ v[p + 1] = "/"

\* C22: an unquoted value returned by any_value is the longest run of value
\* characters (non-space token characters, spaces and tabs) after what was
\* skipped, without the spaces and tabs at its end: it does not end in white
\* space and holds no //, and what is left of the input starts with the
\* white space, line ending, quote, brace or // that ended it.
C22_UnquotedValue ==
    (/\ call.fn = "any_value"
     /\ returned # NotCalled
     /\ SkipLen(call.input) < Len(call.input)
     /\ KeyCharAt(call.input, SkipLen(call.input) + 1)) =>
        LET i == call.input
            k == SkipLen(call.input)
            n == RunFrom(call.input, SkipLen(call.input) + 1, ValueCharAt)
            v == returned.out
        IN  /\ returned.kind = "Ok"
            /\ v = SubSeq(i, k + 1, k + Len(v))
            /\ returned.rest = From(i, k + Len(v) + 1)
            /\ Len(v) \in 1..n
            /\ v[Len(v)] \notin Multispace
            /\ \A p \in (k + Len(v) + 1)..(k + n) : i[p] \in Spaces
            /\ ~HasComment(v)
            /\ \/ returned.rest = <<>>
               \/ Head(returned.rest) \in Multispace \cup {"\"", "{", "}"}
               \/ SubSeq(returned.rest, 1, 2) = <<"/", "/">>

\* a value with a space and a slash inside is returned, white space and a
\* comment are left
C22_Witness ==
    /\ call.fn = "any_value"
    /\ returned # NotCalled
    /\ returned.kind = "Ok"
    /\ \E p \in 2..(Len(returned.out) - 1) : returned.out[p] \in Spaces
    /\ \E p \in 1..Len(returned.out) : returned.out[p] = "/"
    /\ Len(returned.rest) > 2
    /\ Head(returned.rest) \in Spaces
    /\ HasComment(returned.rest)

\* the call is one of a loop; the loop has not returned
LoopCall == call.fn \in {"ignore_many0", "ignore_many1"}
InLoop == LoopCall /\ returned = NotCalled

\* the kind of error of the loop called
ManyCode == IF call.fn = "ignore_many0" THEN "Many0" ELSE "Many1"

\* C28: ignore_many0(f) and ignore_many1(f) return on every input: every trip
\* of their loop returns or leaves strictly less input (the call of f that
\* ignore_many1 makes before its loop returns, leaves less input or leaves
\* the input as it is), and a call of f in the loop that succeeds on no
\* input returns the error Many0 or Many1; when the first call of f fails, ignore_many0 returns the input
\* it was given and ignore_many1 the error Many1.
C28_LoopsReturn ==
    /\ [][InLoop =>
            /\ \/ returned' # NotCalled
               \/ Len(call'.input) < Len(call.input)
               \/ /\ call.fn = "ignore_many1"
                  /\ call.trips = 0
                  /\ call'.input = call.input
            /\ (/\ call.fn = "ignore_many0" \/ call.trips > 0
                /\ Parse(call.f, call.input).kind = "Ok"
                /\ Parse(call.f, call.input).rest = call.input) =>
                    returned' = PError(ManyCode)
            /\ (call.trips = 0 /\ Parse(call.f, call.input).kind = "Error") =>
                    returned' = IF call.fn = "ignore_many0"
                                THEN POk(call.input, <<>>)
                                ELSE PError("Many1")]_vars
    /\ InLoop ~> (LoopCall /\ returned # NotCalled /\ call.trips <= Len(call.given) + 2)

\* a loop returned the error of a parser that succeeded on nothing, after
\* trips that took input
C28_Witness ==
    /\ call.fn = "ignore_many0"
    /\ returned = PError("Many0")
    /\ call.trips > 1
    /\ Len(call.input) < Len(call.given)

\* the collection of data() is under way: the iterator has not ended and no
\* call has yielded an error
Walking ==
    /\ call.fn = "IterBoneAnimations::next"
    /\ ~call.it.finished
    /\ returned # NotCalled => (returned.value.some /\ returned.value.v.kind = "Ok")

\* C23: the legacy block walk of data() comes to an end on every buffer: a
\* call of next() during the walk yields nothing and ends it (terminator),
\* yields an error, which stops the collection, yields a block with forward
\* offset 0 and ends it, or yields a block and moves on by that block's
\* positive forward offset; the positions of the blocks yielded increase
\* strictly and lie in the buffer, so they are no more than the buffer has
\* bytes; and the walk stops.
C23_WalkTerminates ==
    /\ [][Walking =>
            LET it == call.it
                block == AnimationAt(buffer, it.offset)
                item == returned'.value
            IN  \/ ~item.some /\ call'.it.finished
                \/ item.some /\ item.v.kind # "Ok" /\ ~Walking'
                \/ /\ YieldsBlock(item, it.offset)
                   /\ block.next_offset = 0
                   /\ call'.it.finished
                \/ /\ YieldsBlock(item, it.offset)
                   /\ block.next_offset > 0
                   /\ call'.it.offset = it.offset + block.next_offset
                   /\ call'.it.offset > it.offset]_vars
    /\ [](call.fn = "IterBoneAnimations::next" =>
            /\ \A n \in 1..Len(call.yielded) :
                    /\ call.yielded[n] >= sectionRef.anim_offset
                    /\ call.yielded[n] + SizeOfAnimation <= bufLen
                    /\ n > 1 => call.yielded[n - 1] < call.yielded[n]
            /\ Len(call.yielded) <= bufLen)
    /\ <>[](call.fn = "IterBoneAnimations::next" => ~Walking)

\* a walk over three blocks that the end of the buffer stopped
C23_Witness ==
    /\ call.fn = "IterBoneAnimations::next"
    /\ Len(call.yielded) = MaxBlocks
    /\ ~call.it.finished
    /\ returned = Ok(Some(Corrupted("animation section animation out of bounds or misaligned")))
    /\ call.it.offset = bufLen

\* the 16-bit word the run-length curve at `at` holds for its k-th frame: of
\* the run that covers the frame the k-th value, or the last one the run
\* stores; 0 when a header with total = 0 comes before a run covers it
RECURSIVE FrameDelta(_, _, _)
FrameDelta(mem, at, k) ==
    IF U8At(mem, at + 1) = 0 THEN 0
    ELSE IF k < U8At(mem, at + 1)
    THEN I16At(mem, at + 2 + 2 * (IF k < U8At(mem, at) THEN k ELSE U8At(mem, at) - 1))
    ELSE FrameDelta(mem, at + 2 + 2 * U8At(mem, at), k - U8At(mem, at + 1))

\* the delta of frame k on the axis whose offset field is at `field`, the
\* offsets counting from `reference`
AxisDelta(mem, reference, field, k) ==
    IF I16At(mem, field) = 0 THEN 0
    ELSE FrameDelta(mem, reference + I16At(mem, field), k)

\* the components of a frame as the legacy decoder left them: for a root
\* bone the position correction (x, y) -> (y, -x) is taken back
FrameAxes(v, swapped) ==
    IF swapped THEN <<Neg(v.y), v.x, v.z>> ELSE <<v.x, v.y, v.z>>

\* the frames hold delta * scale + rest on every axis whose offset field in
\* the triple at `reference` is not negative
CurveBlockDecoded(frames, reference, scale, rest, swapped) ==
    /\ Len(frames) = sectionRef.frame_count
    /\ \A k \in 0..(sectionRef.frame_count - 1) : \A axis \in 1..3 :
            I16At(buffer, reference + 2 * (axis - 1)) >= 0 =>
                FrameAxes(frames[k + 1], swapped)[axis] =
                    Num(AxisDelta(buffer, reference, reference + 2 * (axis - 1), k)
                            * scale[axis] + rest[axis])

\* the data decoded from the first block of the section is its bone's entry
\* of the map (the second block of the list names bone 1)
FirstBlockKept ==
    /\ ~sectionRef.frame_animation
    /\ decoded.kind = "Ok"
    /\ FirstBlock.bone_index \in DOMAIN decoded.value
    /\ ~(FirstBlock.bone_index = 1 /\ FirstBlock.next_offset > 0)

\* C24: in the legacy decoder every frame value of an animated axis is the
\* 16-bit delta of the frame times the bone's rotation or position scale of
\* that axis plus the bone's rest rotation or position of that axis; the
\* delta is 0, and the value the rest component, for a frame that no run
\* covers and for an axis whose curve offset is 0.
C24_DeltaTimesScalePlusRest ==
    FirstBlockKept =>
        LET bone_data == decoded.value[FirstBlock.bone_index]
            bone == boneTable[FirstBlock.bone_index + 1]
            rotations == sectionRef.anim_offset + SizeOfAnimation
                            + LegacyConstantsLen(FirstBlock.flags)
            positions == IF Contains(FirstBlock.flags, AnimationFlags_ANIMROT)
                         THEN rotations + 6 ELSE rotations
        IN  /\ Contains(FirstBlock.flags, AnimationFlags_ANIMROT) =>
                /\ bone_data.rotation.tag = "AnimatedEuler"
                /\ CurveBlockDecoded(bone_data.rotation.frames, rotations,
                                     bone.rotation_scale, bone.rotation, FALSE)
            /\ Contains(FirstBlock.flags, AnimationFlags_ANIMPOS) =>
                /\ bone_data.position.tag = "Animated"
                /\ CurveBlockDecoded(bone_data.position.frames, positions,
                                     bone.position_scale, bone.position,
                                     bone.parent_bone_index < 0)

\* a child bone with animated rotation and position: the y axis has curve
\* offset 0 and holds the rest components, the x axis holds the delta -40
\* in frame 0 and, after the terminating header, the rest component
C24_Witness ==
    /\ FirstBlockKept
    /\ FirstBlock.bone_index = 1
    /\ sectionRef.frame_count = 2
    /\ decoded.value[1].rotation.tag = "AnimatedEuler"
    /\ decoded.value[1].position.tag = "Animated"
    /\ decoded.value[1].rotation.frames[1].x = Num(100 - 40 * 2)
    /\ decoded.value[1].rotation.frames[2].x = Num(100)
    /\ decoded.value[1].rotation.frames[1].y = Num(200)
    /\ decoded.value[1].position.frames[1].x = Num(1000 - 40 * 7)
    /\ decoded.value[1].position.frames[2].x = Num(1000)
    /\ decoded.value[1].position.frames[2].y = Num(2000)

\* the bytes of the per-frame fields a flag byte selects: the rotations, the
\* positions, and all of them
RotationBytes(flags) ==
    (IF Contains(flags, BoneFlags_ANIM_ROT2) THEN 6 ELSE 0)
    + (IF Contains(flags, BoneFlags_ANIMROT) THEN 6 ELSE 0)
PositionBytes(flags) ==
    (IF Contains(flags, BoneFlags_ANIMPOS) THEN 6 ELSE 0)
    + (IF Contains(flags, BoneFlags_FULLANIMPOS) THEN 12 ELSE 0)
FieldBytes(flags) == RotationBytes(flags) + PositionBytes(flags)

\* the bytes of the per-frame fields of the bones before bone b (counted from 0)
RECURSIVE FieldBytesBefore(_)
FieldBytesBefore(b) ==
    IF b = 0 THEN 0 ELSE FieldBytesBefore(b - 1) + FieldBytes(FlagByte(b - 1))

\* where the fields of bone b of frame f start in a stream read frame by
\* frame, bone by bone
FieldsAt(b, f) ==
    sectionRef.anim_offset + FrameOffsetField
        + f * FieldBytesBefore(Len(boneTable)) + FieldBytesBefore(b)

\* the number of per-frame rotations, and positions, a flag byte selects
RotationFields(flags) == RotationBytes(flags) \div 6
PositionFields(flags) ==
    (IF Contains(flags, BoneFlags_ANIMPOS) THEN 1 ELSE 0)
    + (IF Contains(flags, BoneFlags_FULLANIMPOS) THEN 1 ELSE 0)

\* C25: the per-frame stream of the bitflag decoder is read frame by frame:
\* every field of frame f comes from the position after the fields of all
\* bones of the frames before f and of the bones before its bone in frame f,
\* in a bone the rotations before the positions; a bone without per-frame
\* flags takes no bytes.
C25_FrameMajorStream ==
    (sectionRef.frame_animation /\ decoded.kind = "Ok" /\ FrameOffsetField # 0) =>
        \A b \in DOMAIN decoded.value :
            \A f \in 0..((IF sectionRef.last_section THEN sectionRef.frame_count
                          ELSE sectionRef.frame_count + 1) - 1) :
                LET flags == FlagByte(b)
                    rotations == decoded.value[b].rotation.frames
                    positions == decoded.value[b].position.frames
                    r == f * RotationFields(flags)
                    q == f * PositionFields(flags)
                IN  /\ Contains(flags, BoneFlags_ANIM_ROT2) =>
                        /\ rotations[r + 1].codec = "from_bytes_48"
                        /\ rotations[r + 1].at = FieldsAt(b, f)
                    /\ Contains(flags, BoneFlags_ANIMROT) =>
                        /\ rotations[r + RotationFields(flags)].codec = "from_u16s"
                        /\ rotations[r + RotationFields(flags)].at =
                                FieldsAt(b, f) + RotationBytes(flags) - 6
                    /\ Contains(flags, BoneFlags_ANIMPOS) =>
                        positions[q + 1].z.of =
                            <<"f16_to_f64", FieldsAt(b, f) + RotationBytes(flags) + 4>>
                    /\ Contains(flags, BoneFlags_FULLANIMPOS) =>
                        positions[q + PositionFields(flags)].z.of =
                            <<"f32", FieldsAt(b, f) + FieldBytes(flags) - 12 + 8>>

\* two frames of two bones were read: the second frame of the first bone
\* starts after the first frame of the second bone
C25_Witness ==
    /\ sectionRef.frame_animation
    /\ decoded.kind = "Ok"
    /\ FrameOffsetField = 64
    /\ FlagByte(0) = BoneFlags_ANIM_ROT2 + BoneFlags_ANIMPOS + BoneFlags_RAWROT
    /\ FlagByte(1) = BoneFlags_ANIMROT + BoneFlags_RAWPOS
    /\ Len(decoded.value[0].rotation.frames) = 2
    /\ decoded.value[0].rotation.frames[2].at = sectionRef.anim_offset + 64 + 18
    /\ decoded.value[1].rotation.frames[1].at = sectionRef.anim_offset + 64 + 12
    /\ decoded.value[1].rotation.frames[2].at = sectionRef.anim_offset + 64 + 30

\* C29: read_bone_frames never enters its unreachable!() branches: when a
\* per-frame value is pushed for a bone, the bone's rotation, or position,
\* slot holds a per-frame sequence, also when read_bone_constants stored a
\* constant in the slot before.
C29_SlotsHoldSequences ==
    (sectionRef.frame_animation /\ decoded # NotCalled) =>
        /\ decoded.kind # "Panic"
        /\ (decoded.kind = "Ok" /\ FrameOffsetField # 0) =>
            \A b \in DOMAIN decoded.value :
                /\ HasFrameRotation(FlagByte(b)) =>
                        decoded.value[b].rotation.tag = "Animated"
                /\ HasFramePosition(FlagByte(b)) =>
                        decoded.value[b].position.tag = "Animated"

\* a bone with a constant position and per-frame positions: the constant
\* was stored, then the frames were pushed
C29_Witness ==
    /\ sectionRef.frame_animation
    /\ decoded.kind = "Ok"
    /\ ConstantsOffsetField # 0
    /\ FrameOffsetField # 0
    /\ FlagByte(0) = BoneFlags_ANIMPOS + BoneFlags_RAWPOS
    /\ decoded.value[0].position.tag = "Animated"
    /\ Len(decoded.value[0].position.frames) >= 2

\* the order of the phases, and when each is asked for
PhaseOrder == <<"props", "entities", "brushes", "overlays">>
Asked(phase) ==
    CASE phase = "props" -> call.settings.import_props
      [] phase = "entities" -> call.settings.import_entities
      [] phase = "brushes" -> call.settings.geometry # "Nothing"
      [] phase = "overlays" -> call.settings.geometry = "BrushesAndOverlays"

\* the handler calls a phase makes on the map: a prop for every prop entity
\* without solids, an entity for every other entity without solids that is
\* no overlay, a brush for the world and every entity with solids, an
\* overlay for every overlay entity
Calls(phase) ==
    LET es == call.vmf.entities
    IN  CASE phase = "props" ->
                {<<phase, e>> : e \in {e \in DOMAIN es :
                    es[e].kind = "prop" /\ es[e].solids = <<>>}}
          [] phase = "entities" ->
                {<<phase, e>> : e \in {e \in DOMAIN es :
                    es[e].kind = "other" /\ es[e].solids = <<>>}}
          [] phase = "brushes" ->
                {<<phase, e>> : e \in {0} \cup {e \in DOMAIN es : es[e].solids # <<>>}}
          [] phase = "overlays" ->
                {<<phase, e>> : e \in {e \in DOMAIN es : es[e].kind = "overlay"}}

\* every phase that is asked for and comes before the n-th has made all its
\* handler calls
DoneBefore(n) ==
    \A q \in 1..(n - 1) : Asked(PhaseOrder[q]) => Calls(PhaseOrder[q]) \subseteq call.handled

\* the elements of a sequence
Range(seq) == {seq[i] : i \in DOMAIN seq}

\* C26: Vmf::load runs its phases in one order, each ended before the next
\* starts: the material jobs of every side of every world and entity solid
\* are sent before the task does anything; then the props, the other
\* entities, the brushes and the overlays, each only if it is asked for;
\* nothing of a phase is built or handled before every phase in front of it
\* that is asked for has made all its handler calls; no overlay is built
\* before every brush is handled, and none when brushes are not asked for.
C26_PhasesInOrder ==
    call.fn = "Vmf::load" =>
        /\ (call.phase >= 1 \/ call.built # {} \/ call.handled # {}) =>
            /\ \A s \in DOMAIN call.vmf.world : \A i \in DOMAIN call.vmf.world[s] :
                    <<"materials">> \o call.vmf.world[s][i] \in Range(call.jobs)
            /\ \A e \in DOMAIN call.vmf.entities :
                    \A s \in DOMAIN call.vmf.entities[e].solids :
                        \A i \in DOMAIN call.vmf.entities[e].solids[s] :
                            <<"materials">> \o call.vmf.entities[e].solids[s][i]
                                \in Range(call.jobs)
        /\ \A item \in call.built \cup call.handled :
                \E n \in DOMAIN PhaseOrder :
                    /\ item[1] = PhaseOrder[n]
                    /\ Asked(PhaseOrder[n])
                    /\ item \in Calls(PhaseOrder[n])
                    /\ DoneBefore(n)
        /\ \A item \in call.built :
                item[1] = "overlays" =>
                    /\ call.settings.geometry # "Nothing"
                    /\ Calls("brushes") \subseteq call.handled

\* an overlay is built: the prop, the entity and the two brushes of the map
\* are handled, the other overlay is not yet
C26_Witness ==
    /\ call.fn = "Vmf::load"
    /\ call.settings.import_props
    /\ call.settings.import_entities
    /\ Cardinality(Calls("brushes")) = 2
    /\ call.built = {<<"overlays", 4>>}
    /\ call.handled = Calls("props") \cup Calls("entities") \cup Calls("brushes")
    /\ Len(call.jobs) >= 3

\* every phase that is asked for has made all its handler calls
AllHandled ==
    \A n \in DOMAIN PhaseOrder : Asked(PhaseOrder[n]) => Calls(PhaseOrder[n]) \subseteq call.handled

\* C27: Vmf::load returns only after f has returned and the task has ended
\* every phase asked for; a handler call is made only while the importer is
\* held, which is dropped after the last handler call of the last phase
\* asked for, in every run; so a callback that waits until every copy of
\* the asset handler is dropped returns, and load with it.
C27_ReturnsAfterBoth ==
    /\ [](call.fn = "Vmf::load" =>
            /\ returned.kind = "Ok" =>
                    call.f = "returned" /\ AllHandled /\ call.importer = "dropped"
            /\ call.main # "panicked" =>
                /\ call.importer = "dropped" => (AllHandled /\ call.handlers = 0)
                /\ call.importer = "held" => call.handlers >= 1)
    /\ [][(call.fn = "Vmf::load" /\ call'.handled # call.handled) =>
            (call.importer = "held" /\ call'.importer = "held")]_vars
    /\ <>[](call.fn = "Vmf::load" => (call.importer = "dropped" /\ call.handlers = 0))
    /\ [](call.fn = "Vmf::load" /\ call.callback = "waits" /\ call.f = "running")
            ~> (call.f = "returned")
    /\ (call.callback = "waits") ~> (returned # NotCalled)

\* f runs while the task is in a phase that has handled one of its items
\* and not the other; and f has waited
C27_Witness ==
    /\ call.fn = "Vmf::load"
    /\ call.callback = "waits"
    /\ call.f = "running"
    /\ call.running
    /\ call.handlers = 2
    /\ call.handled = {<<"brushes", 0>>}
    /\ Cardinality(Calls("brushes")) = 2

\* C30: every path send_material_jobs submits has the form
\* materials/<material>: the paths of the sides of the world's and the
\* entities' solids, and, when import_materials is set, those of the
\* overlays.
C30_JobsRootedAtMaterials ==
    call.fn = "Vmf::load" =>
        /\ \A j \in DOMAIN call.jobs : call.jobs[j][1] = "materials"
        /\ (/\ call.settings.import_materials
            /\ call.main \notin {"send_material_jobs", "panicked"}) =>
                \A e \in DOMAIN call.vmf.entities :
                    call.vmf.entities[e].kind = "overlay" =>
                        <<"materials">> \o call.vmf.entities[e].material.v
                            \in Range(call.jobs)

====
